---- MODULE Spec2Model ----
(***************************************************************************)
(* Cryptographic voting engine (webshakil/cryptographic-voting).           *)
(*                                                                         *)
(* The module models the Paillier engine (HomomorphicEncryption), the      *)
(* Shamir split/reconstruct helpers, the zero-knowledge proof service and  *)
(* the vote-processing controller.  Arbitrary-precision integers of the    *)
(* source become TLC integers; the key size is scaled down so that n^2     *)
(* stays below 2^20 and every product is computed without overflow.        *)
(***************************************************************************)
EXTENDS Integers, Sequences, FiniteSets, TLC

VARIABLES
  publicKey,         \* HomomorphicEncryption.publicKey
  privateKey,        \* HomomorphicEncryption.privateKey
  privateKeyShares,  \* HomomorphicEncryption.privateKeyShares
  thresholdParams,   \* HomomorphicEncryption.thresholdParams
  keygen,            \* the last generateKeys call: the primes drawn, or its error
  enc,               \* the running / last encrypt call
  ballots,           \* results of completed encrypt calls held by the caller
  tally,             \* the last addEncrypted call
  dec,               \* the last decrypt / thresholdDecrypt call
  ss,                \* secret-sharing calls: inputs, shares, reconstruction
  now,               \* Date.now()
  bundle,            \* the last ZeroKnowledgeProof.generateProof call
  verdict,           \* the last ZeroKnowledgeProof.verifyProof call
  nullifierCalls,    \* the generateNullifier calls made so far
  requests,          \* HTTP requests of the controller: inputs, position, response
  keysTable,         \* rows of vottery_homomorphic_keys
  votesTable,        \* rows of vottery_encrypted_votes
  receiptsTable,     \* rows of the receipts table
  auditTable,        \* rows of vottery_vote_audit_logs
  mix                \* the running / last Mixnets.shuffleVotes call

engineVars == <<publicKey, privateKey, privateKeyShares, thresholdParams, keygen>>
heVars == <<enc, ballots, tally, dec>>
zkVars == <<now, bundle, verdict, nullifierCalls>>
storeVars == <<keysTable, votesTable, receiptsTable, auditTable>>
serviceVars == <<zkVars, requests, storeVars, mix>>
vars == <<publicKey, privateKey, privateKeyShares, thresholdParams, keygen,
          enc, ballots, tally, dec, ss, now, bundle, verdict, nullifierCalls,
          requests, keysTable, votesTable, receiptsTable, auditTable, mix>>

NULL == [null |-> TRUE]

\* a returned value / a thrown Error
Ok(v) == [ok |-> TRUE, val |-> v]
Err(m) == [ok |-> FALSE, err |-> m]

(***************************************************************************)
(* BigInt arithmetic                                                       *)
(***************************************************************************)

\* BigInt a % m: the remainder takes the sign of the dividend
JsRem(a, m) == IF a >= 0 THEN a % m ELSE 0 - ((0 - a) % m)

\* BigInt a / b for b > 0: the quotient is truncated towards zero
JsDiv(a, b) == IF a >= 0 THEN a \div b ELSE 0 - ((0 - a) \div b)

\* (a * b) % m for 0 <= a < 2^20, 0 <= b < 2^21, 0 < m < 2^20, computed in
\* two halves so that no intermediate product leaves the 32-bit range
MulMod(a, b, m) ==
  (((a * (b \div 1024)) % m) * 1024 + a * (b % 1024)) % m

\* bigint-crypto-utils toZn: the residue of a in [0, n)
ToZn(a, n) == a % n

RECURSIVE ModPowLoop(_, _, _, _)
ModPowLoop(b, e, m, r) ==
  IF e = 0 THEN r
  ELSE ModPowLoop(MulMod(b, b, m), e \div 2, m,
                  IF e % 2 = 1 THEN MulMod(r, b, m) ELSE r)

\* bigint-crypto-utils modPow(b, e, n) for e >= 0
ModPow(b, e, m) == IF m = 1 THEN 0 ELSE ModPowLoop(ToZn(b, m), e, m, 1)

\* HomomorphicEncryption.gcd
RECURSIVE gcd(_, _)
gcd(a, b) == IF b = 0 THEN a ELSE gcd(b, JsRem(a, b))

\* HomomorphicEncryption.lcm
lcm(a, b) == JsDiv(a * b, gcd(a, b))

\* HomomorphicEncryption.L
L(u, n) == JsDiv(u - 1, n)

\* the loop of bigint-crypto-utils eGcd(a, b): returns [g, x] with
\* g = gcd(a, b) and a*x = g (mod b)
RECURSIVE eGcdLoop(_, _, _, _)
eGcdLoop(a, b, x, u) ==
  IF a = 0 THEN [g |-> b, x |-> x]
  ELSE eGcdLoop(b % a, a, u, x - u * (b \div a))

\* bigint-crypto-utils modInv(a, n): the inverse of a modulo n in [0, n), or
\* a RangeError when a has no inverse
ModInv(a, n) ==
  LET z == ToZn(a, n)
      egcd == eGcdLoop(z, n, 0, 1)
  IN IF z = 0 \/ egcd.g # 1 THEN Err("RangeError") ELSE Ok(ToZn(egcd.x, n))

(***************************************************************************)
(* Decimal strings: BigInt.prototype.toString() and BigInt(string)         *)
(***************************************************************************)

DigitChars == <<"0", "1", "2", "3", "4", "5", "6", "7", "8", "9">>

DigitOf(ch) == (CHOOSE i \in 1..10 : DigitChars[i] = ch) - 1

RECURSIVE Digits(_)
Digits(x) ==
  IF x < 10 THEN <<DigitChars[x + 1]>>
  ELSE Append(Digits(x \div 10), DigitChars[(x % 10) + 1])

\* x.toString() for a BigInt x: its decimal digits, "-" first when negative
ToStr(x) == IF x >= 0 THEN Digits(x) ELSE <<"-">> \o Digits(0 - x)

IsDigitSeq(s) == \A i \in 1..Len(s) : \E d \in 1..10 : DigitChars[d] = s[i]

RECURSIVE DigitsValue(_)
DigitsValue(s) ==
  IF Len(s) = 0 THEN 0
  ELSE 10 * DigitsValue(SubSeq(s, 1, Len(s) - 1)) + DigitOf(s[Len(s)])

\* BigInt(s) for a string s: its value, or a SyntaxError when s is not a
\* decimal numeral (the empty string converts to 0n)
ToBigInt(s) ==
  IF IsDigitSeq(s) THEN Ok(DigitsValue(s))
  ELSE IF Len(s) > 1 /\ s[1] = "-" /\ IsDigitSeq(Tail(s))
       THEN Ok(0 - DigitsValue(Tail(s)))
       ELSE Err("SyntaxError")

(***************************************************************************)
(* Shamir secret sharing                                                   *)
(***************************************************************************)

\* HomomorphicEncryption.generateRandomBigInt(max) for the value raw that
\* the random bytes spell
generateRandomBigInt(raw, max) == raw % max

\* the inner loop of generateSecretShares: f(x) accumulated from term j on
RECURSIVE EvalPoly(_, _, _, _, _, _)
EvalPoly(coefficients, x, modulus, j, y, xPower) ==
  IF j > Len(coefficients) THEN y
  ELSE EvalPoly(coefficients, x, modulus, j + 1,
                JsRem(y + JsRem(coefficients[j] * xPower, modulus), modulus),
                JsRem(xPower * x, modulus))

\* generateSecretShares taking the secret for every coefficient
generateSecretSharesUnblinded(secret, n, k, modulus, randoms) ==
  LET coefficients == <<secret>> \o [j \in 1..Len(randoms) |-> secret]
  IN [x \in 1..n |-> [id |-> x, value |-> EvalPoly(coefficients, x, modulus, 1, 0, 1)]]

\* HomomorphicEncryption.generateSecretShares(secret, n, k, modulus), where
\* randoms are the k-1 values generateRandomBigInt returns
generateSecretShares(secret, n, k, modulus, randoms) ==
  LET coefficients == <<secret>> \o randoms
  IN [x \in 1..n |-> [id |-> x, value |-> EvalPoly(coefficients, x, modulus, 1, 0, 1)]]

\* the inner loop of reconstructSecret for share i: numerator and denominator
RECURSIVE LagrangeTerms(_, _, _, _, _, _)
LagrangeTerms(shares, modulus, i, j, numerator, denominator) ==
  IF j > Len(shares) THEN [numerator |-> numerator, denominator |-> denominator]
  ELSE IF i # j
       THEN LagrangeTerms(shares, modulus, i, j + 1,
                          JsRem(numerator * (0 - shares[j].id), modulus),
                          JsRem(denominator * (shares[i].id - shares[j].id), modulus))
       ELSE LagrangeTerms(shares, modulus, i, j + 1, numerator, denominator)

\* the outer loop of reconstructSecret from share i on; modInv may throw
RECURSIVE ReconstructLoop(_, _, _, _)
ReconstructLoop(shares, modulus, i, secret) ==
  IF i > Len(shares) THEN Ok(secret)
  ELSE LET t == LagrangeTerms(shares, modulus, i, 1, 1, 1)
           denominatorInv == ModInv(t.denominator, modulus)
       IN IF ~denominatorInv.ok THEN denominatorInv
          ELSE LET lagrangeCoeff == JsRem(t.numerator * denominatorInv.val, modulus)
               IN ReconstructLoop(shares, modulus, i + 1,
                    JsRem(secret + JsRem(shares[i].value * lagrangeCoeff, modulus), modulus))

\* reconstructSecret without the final step that makes the result positive
reconstructSecretSigned(shares, modulus) ==
  ReconstructLoop(shares, modulus, 1, 0)

\* HomomorphicEncryption.reconstructSecret(shares, modulus)
reconstructSecret(shares, modulus) ==
  LET r == ReconstructLoop(shares, modulus, 1, 0)
  IN IF ~r.ok THEN r
     ELSE Ok(JsRem(JsRem(r.val, modulus) + modulus, modulus))

(***************************************************************************)
(* HomomorphicEncryption: key generation                                   *)
(***************************************************************************)

\* this.keySize, scaled down from the source's 1024 bits so that n^2 fits
\* the model's integers; generatePrime is called with keySize / 2 bits
keySize == 10

thresholdN == 5
thresholdK == 3

RECURSIVE Pow2(_)
Pow2(e) == IF e = 0 THEN 1 ELSE 2 * Pow2(e - 1)

\* the candidate generatePrime builds from the value raw of its random
\* bytes: masked to bits bits, highest bit set, lowest bit set
PrimeCandidate(raw, bits) ==
  LET masked == raw % Pow2(bits)
      high == IF (masked \div Pow2(bits - 1)) % 2 = 0
              THEN masked + Pow2(bits - 1) ELSE masked
  IN IF high % 2 = 0 THEN high + 1 ELSE high

\* the quick divisibility tests of generatePrime: TRUE when the candidate is
\* discarded
DivisibleBySmallPrime(candidate) ==
  \/ candidate % 3 = 0 \/ candidate % 5 = 0
  \/ candidate % 7 = 0 \/ candidate % 11 = 0
  \/ candidate % 13 = 0 \/ candidate % 17 = 0

\* bigint-crypto-utils isProbablyPrime(candidate, 15), taken as exact
isProbablyPrime(candidate) ==
  /\ candidate > 1
  /\ \A d \in 2..(candidate - 1) : d * d > candidate \/ candidate % d # 0

\* one iteration of generatePrime accepts the candidate
AcceptedPrime(candidate) ==
  ~DivisibleBySmallPrime(candidate) /\ isProbablyPrime(candidate)

\* HomomorphicEncryption.generateKeys once both primes are found; randoms are
\* the values generateRandomBigInt returns inside generateSecretShares.
\* The result is the engine state assigned, or the error thrown before any
\* assignment.
generateKeys(p, q, randoms) ==
  LET n == p * q
      lambda == lcm(p - 1, q - 1)
      g == n + 1
      nsq == n * n
      gLambda == ModPow(g, lambda, nsq)
      l == L(gLambda, n)
      mu == ModInv(l, n)
      shares == generateSecretShares(lambda, thresholdN, thresholdK, n, randoms)
  IN IF ~mu.ok THEN mu
     ELSE Ok([publicKey |-> [n |-> n, g |-> g, nsq |-> nsq],
              privateKey |-> [lambda |-> lambda, mu |-> mu.val, n |-> n, nsq |-> nsq],
              privateKeyShares |-> [shares |-> shares, mu |-> mu.val, n |-> n,
                                    nsq |-> nsq, thresholdN |-> thresholdN,
                                    thresholdK |-> thresholdK],
              thresholdParams |-> [n |-> thresholdN, k |-> thresholdK]])

(***************************************************************************)
(* HomomorphicEncryption: encrypt, addEncrypted, decrypt, thresholdDecrypt *)
(***************************************************************************)

\* maxAttempts of encrypt
maxAttempts == 1000

\* the number of random bytes encrypt asks for: ceil(bitlength(n) / 8)
RECURSIVE BitLength(_)
BitLength(x) == IF x < 2 THEN 1 ELSE 1 + BitLength(x \div 2)

ByteLength(n) == (BitLength(n) + 7) \div 8

\* encryptEnter with the guard n < 100
encryptEnterStrict(vote, key) ==
  IF key = NULL THEN Err("Public key required for encryption")
  ELSE IF key.n < 100 THEN Err("Public key n is too small. Keys may be corrupted.")
  ELSE Ok([attempts |-> 0])

\* encrypt up to its random loop: the error thrown, or the loop entered
encryptEnter(vote, key) ==
  IF key = NULL THEN Err("Public key required for encryption")
  ELSE IF key.n <= 100 THEN Err("Public key n is too small. Keys may be corrupted.")
  ELSE Ok([attempts |-> 0])

\* encryptValue without the blinding factor r^n
encryptValueUnblinded(m, r, key) == ModPow(key.g, m, key.nsq)

\* the ciphertext of encrypt: c = g^m * r^n mod n^2
encryptValue(m, r, key) ==
  LET gm == ModPow(key.g, m, key.nsq)
      rn == ModPow(r, key.n, key.nsq)
  IN MulMod(gm, rn, key.nsq)

\* encryptIteration without the gcd(r, n) test of its loop condition
encryptIterationUnchecked(vote, key, attempts, raw) ==
  IF attempts > maxAttempts
  THEN [loop |-> FALSE, attempts |-> attempts + 1,
        result |-> Err("Failed to generate valid random number r")]
  ELSE IF key.n <= 2
  THEN [loop |-> FALSE, attempts |-> attempts + 1,
        result |-> Err("n is too small for encryption")]
  ELSE LET r == (raw % (key.n - 2)) + 2
           after == attempts + 1
       IN IF after >= maxAttempts
          THEN [loop |-> FALSE, attempts |-> after,
                result |-> Err("Could not find coprime random number")]
          ELSE [loop |-> FALSE, attempts |-> after,
                result |-> Ok([ciphertext |-> ToStr(encryptValue(vote, r, key)),
                               randomness |-> ToStr(r)])]

\* one iteration of the do-while loop of encrypt, for the value raw that the
\* random bytes spell: [loop |-> TRUE] when the loop repeats, otherwise the
\* value returned or the error thrown
encryptIteration(vote, key, attempts, raw) ==
  IF attempts > maxAttempts
  THEN [loop |-> FALSE, attempts |-> attempts + 1,
        result |-> Err("Failed to generate valid random number r")]
  ELSE IF key.n <= 2
  THEN [loop |-> FALSE, attempts |-> attempts + 1,
        result |-> Err("n is too small for encryption")]
  ELSE LET r == (raw % (key.n - 2)) + 2
           after == attempts + 1
       IN IF gcd(r, key.n) # 1 /\ after < maxAttempts
          THEN [loop |-> TRUE, attempts |-> after, result |-> NULL]
          ELSE IF after >= maxAttempts
          THEN [loop |-> FALSE, attempts |-> after,
                result |-> Err("Could not find coprime random number")]
          ELSE [loop |-> FALSE, attempts |-> after,
                result |-> Ok([ciphertext |-> ToStr(encryptValue(vote, r, key)),
                               randomness |-> ToStr(r)])]

\* the object has the property (and it is not undefined)
Has(obj, field) == field \in DOMAIN obj

\* JavaScript truthiness of a string property: present and not empty
Truthy(obj, field) == Has(obj, field) /\ obj[field] # <<>>

\* the ciphertext text addEncrypted takes from one element, or its error;
\* an element is [type |-> "string", text |-> s] or an object of properties
ciphertextOf(vote) ==
  IF vote.type = "string" THEN Ok(vote.text)
  ELSE IF Truthy(vote, "ciphertext") THEN Ok(vote.ciphertext)
  ELSE IF Has(vote, "homomorphic_data") /\ Truthy(vote.homomorphic_data, "ciphertext")
       THEN Ok(vote.homomorphic_data.ciphertext)
       ELSE Err("Invalid vote structure for homomorphic addition")

\* addLoop with the ciphertexts added instead of multiplied
RECURSIVE addLoopAdding(_, _, _, _)
addLoopAdding(encryptedVotes, nsq, i, result) ==
  IF i > Len(encryptedVotes) THEN Ok(ToStr(result))
  ELSE LET ciphertext == ciphertextOf(encryptedVotes[i])
       IN IF ~ciphertext.ok THEN ciphertext
          ELSE LET c == ToBigInt(ciphertext.val)
               IN IF ~c.ok THEN c
                  ELSE addLoopAdding(encryptedVotes, nsq, i + 1,
                                     (result + c.val) % nsq)

\* the loop of addEncrypted from element i on
RECURSIVE addLoop(_, _, _, _)
addLoop(encryptedVotes, nsq, i, result) ==
  IF i > Len(encryptedVotes) THEN Ok(ToStr(result))
  ELSE LET ciphertext == ciphertextOf(encryptedVotes[i])
       IN IF ~ciphertext.ok THEN ciphertext
          ELSE LET c == ToBigInt(ciphertext.val)
               IN IF ~c.ok THEN c
                  ELSE addLoop(encryptedVotes, nsq, i + 1,
                               MulMod(result, c.val, nsq))

\* HomomorphicEncryption.addEncrypted(encryptedVotes, publicKey)
addEncrypted(encryptedVotes, key) ==
  IF key = NULL THEN Err("Public key required for homomorphic addition")
  ELSE addLoop(encryptedVotes, key.nsq, 1, 1)

\* Number(m) for a BigInt m below 2^53
ToNumber(m) == m

\* m = L(c^lambda mod n^2) * mu mod n, as decrypt and
\* performThresholdDecryption compute it
paillierPlain(c, lambda, mu, n, nsq) ==
  LET cLambda == ModPow(c, lambda, nsq)
      l == L(cLambda, n)
  IN ToNumber(JsRem(l * mu, n))

\* HomomorphicEncryption.decrypt(ciphertext, privateKey)
decrypt(ciphertext, key) ==
  IF key = NULL THEN Err("Private key required for decryption")
  ELSE LET c == ToBigInt(ciphertext)
       IN IF ~c.ok THEN c
          ELSE Ok(paillierPlain(c.val, key.lambda, key.mu, key.n, key.nsq))

\* the Error `Insufficient shares: need ${threshold}, have ${length}`
ErrInsufficient(need, have) ==
  [ok |-> FALSE, err |-> "Insufficient shares", need |-> need, have |-> have]

\* shares.slice(0, threshold) for threshold >= 0
Slice(shares, threshold) ==
  SubSeq(shares, 1, IF threshold < Len(shares) THEN threshold ELSE Len(shares))

\* performThresholdDecryption interpolating modulo n^2 instead of n
performThresholdDecryptionModNsq(ciphertext, threshold, pks) ==
  IF pks = NULL \/ ~Has(pks, "shares")
  THEN Err("Private key shares not available for threshold decryption")
  ELSE LET c == ToBigInt(ciphertext)
           activeShares == Slice(pks.shares, threshold)
       IN IF ~c.ok THEN c
          ELSE IF Len(activeShares) < threshold
               THEN ErrInsufficient(threshold, Len(activeShares))
          ELSE LET reconstructedLambda == reconstructSecret(activeShares, pks.nsq)
               IN IF ~reconstructedLambda.ok THEN reconstructedLambda
                  ELSE Ok(paillierPlain(c.val, reconstructedLambda.val % pks.nsq,
                                        pks.mu, pks.n, pks.nsq))

\* HomomorphicEncryption.performThresholdDecryption(ciphertext, threshold)
\* with this.privateKeyShares = pks
performThresholdDecryption(ciphertext, threshold, pks) ==
  IF pks = NULL \/ ~Has(pks, "shares")
  THEN Err("Private key shares not available for threshold decryption")
  ELSE LET c == ToBigInt(ciphertext)
           activeShares == Slice(pks.shares, threshold)
       IN IF ~c.ok THEN c
          ELSE IF Len(activeShares) < threshold
               THEN ErrInsufficient(threshold, Len(activeShares))
          ELSE LET reconstructedLambda == reconstructSecret(activeShares, pks.n)
               IN IF ~reconstructedLambda.ok THEN reconstructedLambda
                  ELSE Ok(paillierPlain(c.val, reconstructedLambda.val,
                                        pks.mu, pks.n, pks.nsq))

\* HomomorphicEncryption.thresholdDecrypt(ciphertext, threshold) with
\* this.privateKeyShares = pks and this.privateKey = key
thresholdDecrypt(ciphertext, threshold, pks, key) ==
  IF pks # NULL /\ Has(pks, "shares") /\ Len(pks.shares) >= threshold
  THEN performThresholdDecryption(ciphertext, threshold, pks)
  ELSE IF key # NULL THEN decrypt(ciphertext, key)
  ELSE Err("No valid decryption keys available")

(***************************************************************************)
(* Key material crossing the store: serializeBigInt, setPublicKey,         *)
(* setPrivateKeyShares                                                     *)
(***************************************************************************)

\* CryptoController.serializeBigInt applied to a public key
serializePublicKey(key) ==
  [n |-> ToStr(key.n), g |-> ToStr(key.g), nsq |-> ToStr(key.nsq)]

\* CryptoController.serializeBigInt applied to the privateKeyShares object
serializeKeyShares(pks) ==
  [shares |-> [i \in 1..Len(pks.shares) |->
                 [id |-> pks.shares[i].id, value |-> ToStr(pks.shares[i].value)]],
   mu |-> ToStr(pks.mu), n |-> ToStr(pks.n), nsq |-> ToStr(pks.nsq),
   thresholdN |-> pks.thresholdN, thresholdK |-> pks.thresholdK]

\* HomomorphicEncryption.setPublicKey(publicKeyData): the key assigned, or
\* the error thrown
setPublicKey(keyData) ==
  LET n == ToBigInt(keyData.n)
      g == ToBigInt(keyData.g)
      nsq == ToBigInt(keyData.nsq)
  IN IF n.ok /\ g.ok /\ nsq.ok
     THEN Ok([n |-> n.val, g |-> g.val, nsq |-> nsq.val])
     ELSE Err("Invalid public key format")

\* HomomorphicEncryption.setPrivateKeyShares(privateKeySharesData) in the
\* engine state cur: the fields assigned, or the error thrown
setPrivateKeyShares(shareData, cur) ==
  IF Has(shareData, "shares") /\ Truthy(shareData, "mu") /\ Truthy(shareData, "n")
  THEN LET values == [i \in 1..Len(shareData.shares) |->
                        ToBigInt(shareData.shares[i].value)]
           mu == ToBigInt(shareData.mu)
           n == ToBigInt(shareData.n)
           nsq == ToBigInt(shareData.nsq)
       IN IF (\A i \in 1..Len(values) : values[i].ok) /\ mu.ok /\ n.ok /\ nsq.ok
          THEN Ok([privateKey |-> cur.privateKey,
                   privateKeyShares |->
                     [shares |-> [i \in 1..Len(values) |->
                                    [id |-> shareData.shares[i].id,
                                     value |-> values[i].val]],
                      mu |-> mu.val, n |-> n.val, nsq |-> nsq.val,
                      thresholdN |-> shareData.thresholdN,
                      thresholdK |-> shareData.thresholdK],
                   thresholdParams |-> [n |-> shareData.thresholdN,
                                        k |-> shareData.thresholdK]])
          ELSE Err("Invalid private key shares format")
  ELSE IF Truthy(shareData, "lambda") /\ Truthy(shareData, "mu") /\ Truthy(shareData, "n")
  THEN LET lambda == ToBigInt(shareData.lambda)
           mu == ToBigInt(shareData.mu)
           n == ToBigInt(shareData.n)
           nsq == ToBigInt(shareData.nsq)
       IN IF lambda.ok /\ mu.ok /\ n.ok /\ nsq.ok
          THEN Ok([privateKey |-> [lambda |-> lambda.val, mu |-> mu.val,
                                   n |-> n.val, nsq |-> nsq.val],
                   privateKeyShares |-> shareData,
                   thresholdParams |-> cur.thresholdParams])
          ELSE Err("Invalid private key shares format")
  ELSE Err("Invalid private key shares format")

(***************************************************************************)
(* Secret sharing as a caller drives it: split, then reconstruct from a    *)
(* chosen selection of the shares                                          *)
(***************************************************************************)

\* largest number of shares a split is asked for
MaxShares == 4

\* moduli of the split: a prime, a composite sharing a factor with a
\* difference of share ids, and two products of primes as the engine uses
ShareModuli == {7, 15, 361, 437}

\* values the random bytes of one coefficient spell
CoefficientDraws == {0, 1, 65535}

SecretsOf(modulus) == {0, 1, modulus - 1}

\* the sequences of length len over S
RECURSIVE SeqsOf(_, _)
SeqsOf(S, len) ==
  IF len = 0 THEN {<<>>}
  ELSE {Append(q, x) : q \in SeqsOf(S, len - 1), x \in S}

\* the elements of f at the positions of S, in ascending position order
RECURSIVE Pick(_, _, _)
Pick(f, S, i) ==
  IF i > Len(f) THEN <<>>
  ELSE (IF i \in S THEN <<f[i]>> ELSE <<>>) \o Pick(f, S, i + 1)

NoEngine ==
  /\ publicKey = NULL
  /\ privateKey = NULL
  /\ privateKeyShares = NULL
  /\ thresholdParams = NULL
  /\ keygen = NULL

NoCalls ==
  /\ enc = NULL
  /\ ballots = <<>>
  /\ tally = NULL
  /\ dec = NULL

\* the proof service and the controller not in use, the store empty
NoServices ==
  /\ now = 0
  /\ bundle = NULL
  /\ verdict = NULL
  /\ nullifierCalls = <<>>
  /\ requests = <<>>
  /\ keysTable = <<>>
  /\ votesTable = <<>>
  /\ receiptsTable = <<>>
  /\ auditTable = <<>>
  /\ mix = NULL

(***************************************************************************)
(* The engine as one election's caller drives it: generate the keys,       *)
(* encrypt votes, add the ciphertexts, decrypt                             *)
(***************************************************************************)

\* most ciphertexts the caller holds at a time
MaxBallots == 2

\* ordinary vote values: the candidate indices of a two-candidate election
CandidateVotes == {0, 1}

\* most times the random loop of encrypt is made to repeat in this scenario
MaxRetries == 1

\* values the random byte of generatePrime spells: candidates 19, 21, 23
PrimeDraws == {3, 5, 7}

\* values the random bytes of one share coefficient spell in generateKeys
\* (the choice of coefficients is explored by SpecSharing)
KeyShareDraws == {65535}

\* values the random bytes of encrypt spell: r = 2, r = 19 (a factor of
\* some n), and the largest two-byte value
RandomDraws == {0, 17, 65535}

\* public keys a caller may hand to encrypt instead of the engine's
CorruptKeys == {[n |-> m, g |-> m + 1, nsq |-> m * m] : m \in {1, 2, 100}}

\* the primes generatePrime(bits) can return for the draws
GeneratablePrimes(bits) ==
  {c \in {PrimeCandidate(raw, bits) : raw \in PrimeDraws} : AcceptedPrime(c)}

\* some draw is rejected, so generatePrime can use up its attempts
PrimeSearchCanFail(bits) ==
  \E raw \in PrimeDraws : ~AcceptedPrime(PrimeCandidate(raw, bits))

InitEngine ==
  /\ NoEngine
  /\ NoCalls
  /\ NoServices
  /\ ss = NULL

\* generateKeys(): both primes found
GenerateKeys ==
  /\ keygen = NULL
  /\ \E p, q \in GeneratablePrimes(keySize \div 2) :
       \E raws \in SeqsOf(KeyShareDraws, thresholdK - 1) :
         LET randoms == [j \in 1..(thresholdK - 1) |->
                           generateRandomBigInt(raws[j], p * q)]
             out == generateKeys(p, q, randoms)
         IN IF out.ok
            THEN /\ publicKey' = out.val.publicKey
                 /\ privateKey' = out.val.privateKey
                 /\ privateKeyShares' = out.val.privateKeyShares
                 /\ thresholdParams' = out.val.thresholdParams
                 /\ keygen' = Ok([p |-> p, q |-> q])
            ELSE /\ keygen' = out
                 /\ UNCHANGED <<publicKey, privateKey, privateKeyShares, thresholdParams>>
  /\ UNCHANGED <<heVars, ss, serviceVars>>

\* generateKeys(): generatePrime throws after its last attempt
GenerateKeysFails ==
  /\ keygen = NULL
  /\ PrimeSearchCanFail(keySize \div 2)
  /\ keygen' = Err("Failed to generate prime")
  /\ UNCHANGED <<publicKey, privateKey, privateKeyShares, thresholdParams, heVars, ss, serviceVars>>

\* no encrypt call is running
Idle == IF enc = NULL THEN TRUE ELSE enc.status = "done"

VoteInputs(key) ==
  CandidateVotes \cup (IF key # NULL /\ key.n > 0 THEN {key.n - 1} ELSE {})

\* encrypt(vote, publicKey) is called and runs up to its random loop
EncryptCall ==
  /\ Idle
  /\ Len(ballots) < MaxBallots
  /\ \E key \in {publicKey} \cup CorruptKeys :
       \E vote \in VoteInputs(key) :
         LET e == encryptEnter(vote, key)
         IN enc' = [status |-> IF e.ok THEN "loop" ELSE "done",
                    vote |-> vote, key |-> key, attempts |-> 0, draws |-> 0,
                    result |-> IF e.ok THEN NULL ELSE e]
  /\ tally' = NULL
  /\ dec' = NULL
  /\ UNCHANGED <<engineVars, ballots, ss, serviceVars>>

\* one iteration of the random loop of encrypt; the call returns or throws
\* when the loop ends.  cap bounds how often the loop may repeat.
EncryptStep(cap) ==
  /\ enc # NULL
  /\ enc.status = "loop"
  /\ \E raw \in RandomDraws :
       LET it == encryptIteration(enc.vote, enc.key, enc.attempts, raw)
       IN /\ it.loop => it.attempts <= cap
          /\ enc' = [enc EXCEPT !.status = IF it.loop THEN "loop" ELSE "done",
                                !.attempts = it.attempts,
                                !.draws = enc.draws + 1,
                                !.result = it.result]
          /\ ballots' = IF ~it.loop /\ it.result.ok
                        THEN Append(ballots, [vote |-> enc.vote, key |-> enc.key,
                                              ciphertext |-> it.result.val.ciphertext,
                                              randomness |-> it.result.val.randomness])
                        ELSE ballots
  /\ UNCHANGED <<engineVars, tally, dec, ss, serviceVars>>

\* the generated key material is serialized, and a fresh engine (the one of
\* the tallying process) is hydrated from it: new HomomorphicEncryption(),
\* setPublicKey, setPrivateKeyShares
LoadStoredKeys ==
  /\ Idle
  /\ publicKey # NULL
  /\ privateKey # NULL
  /\ dec = NULL
  /\ LET pk == setPublicKey(serializePublicKey(publicKey))
         sh == setPrivateKeyShares(serializeKeyShares(privateKeyShares),
                                   [privateKey |-> NULL, thresholdParams |-> NULL])
     IN /\ publicKey' = IF pk.ok THEN pk.val ELSE NULL
        /\ privateKey' = IF pk.ok /\ sh.ok THEN sh.val.privateKey ELSE NULL
        /\ privateKeyShares' = IF pk.ok /\ sh.ok THEN sh.val.privateKeyShares ELSE NULL
        /\ thresholdParams' = IF pk.ok /\ sh.ok THEN sh.val.thresholdParams ELSE NULL
  /\ UNCHANGED <<keygen, heVars, ss, serviceVars>>

\* the {ciphertext, randomness} objects the caller holds
BallotObjects ==
  [i \in 1..Len(ballots) |-> [type |-> "object",
                              ciphertext |-> ballots[i].ciphertext,
                              randomness |-> ballots[i].randomness]]

\* addEncrypted(encryptedVotes) over everything the caller holds
AddEncrypted ==
  /\ Idle
  /\ tally' = [votes |-> BallotObjects, key |-> publicKey,
               result |-> addEncrypted(BallotObjects, publicKey)]
  /\ dec' = NULL
  /\ UNCHANGED <<engineVars, enc, ballots, ss, serviceVars>>

\* ciphertexts the caller can pass on: the last sum and the single votes
SumText == IF tally # NULL /\ tally.result.ok THEN {tally.result.val} ELSE {}

HeldTexts == SumText \cup {ballots[i].ciphertext : i \in 1..Len(ballots)}

\* threshold arguments tried: none, below k, k, all shares, more than exist
ThresholdInputs == {0, thresholdK - 1, thresholdK, thresholdN, thresholdN + 1}

\* decrypt(ciphertext)
Decrypt ==
  /\ Idle
  /\ dec = NULL
  /\ \E ciphertext \in HeldTexts :
       dec' = [op |-> "decrypt", ciphertext |-> ciphertext, threshold |-> 0,
               result |-> decrypt(ciphertext, privateKey)]
  /\ UNCHANGED <<engineVars, enc, ballots, tally, ss, serviceVars>>

\* thresholdDecrypt(ciphertext, threshold)
ThresholdDecrypt ==
  /\ Idle
  /\ dec = NULL
  /\ \E ciphertext \in SumText, threshold \in ThresholdInputs :
       dec' = [op |-> "thresholdDecrypt", ciphertext |-> ciphertext,
               threshold |-> threshold,
               result |-> thresholdDecrypt(ciphertext, threshold,
                                           privateKeyShares, privateKey)]
  /\ UNCHANGED <<engineVars, enc, ballots, tally, ss, serviceVars>>

\* performThresholdDecryption(ciphertext, threshold)
PerformThresholdDecryption ==
  /\ Idle
  /\ dec = NULL
  /\ \E ciphertext \in SumText, threshold \in ThresholdInputs :
       dec' = [op |-> "performThresholdDecryption", ciphertext |-> ciphertext,
               threshold |-> threshold,
               result |-> performThresholdDecryption(ciphertext, threshold,
                                                     privateKeyShares)]
  /\ UNCHANGED <<engineVars, enc, ballots, tally, ss, serviceVars>>

Next ==
  \/ GenerateKeys
  \/ GenerateKeysFails
  \/ LoadStoredKeys
  \/ EncryptCall
  \/ EncryptStep(MaxRetries)
  \/ AddEncrypted
  \/ Decrypt
  \/ ThresholdDecrypt
  \/ PerformThresholdDecryption

Spec == InitEngine /\ [][Next]_vars

(***************************************************************************)
(* Properties of the engine                                                *)
(***************************************************************************)

\* generateKeys succeeded and drew two distinct primes
DistinctPrimes ==
  IF keygen = NULL THEN FALSE
  ELSE keygen.ok /\ keygen.val.p # keygen.val.q

\* the engine holds the private key of such a pair
ValidKeyPair == DistinctPrimes /\ privateKey # NULL

\* every ciphertext held was made under the engine's public key
AllUnderEngineKey == \A i \in 1..Len(ballots) : ballots[i].key = publicKey

RECURSIVE SumVotes(_, _)
SumVotes(bs, i) == IF i > Len(bs) THEN 0 ELSE bs[i].vote + SumVotes(bs, i + 1)

\* the last decryption call was op applied to the last sum
DecryptedSum(op) ==
  IF dec = NULL \/ tally = NULL THEN FALSE
  ELSE dec.op = op /\ tally.result.ok /\ dec.ciphertext = tally.result.val

\* C1: for a key pair of two distinct primes and votes v1, v2 with
\* v1 + v2 < n, adding the two ciphertexts that encrypt returned succeeds
\* and decrypt of the sum returns v1 + v2, whatever randomness was drawn.
Homomorphism ==
  (/\ ValidKeyPair
   /\ tally # NULL
   /\ Len(ballots) = 2
   /\ AllUnderEngineKey
   /\ SumVotes(ballots, 1) < publicKey.n)
  => /\ tally.result.ok
     /\ DecryptedSum("decrypt") => dec.result = Ok(ballots[1].vote + ballots[2].vote)

\* votes 1 and 1, encrypted with different randomness, were added and the
\* sum decrypted to 2
HomomorphismWitness ==
  /\ ValidKeyPair
  /\ Len(ballots) = 2
  /\ ballots[1].vote = 1
  /\ ballots[2].vote = 1
  /\ ballots[1].randomness # ballots[2].randomness
  /\ DecryptedSum("decrypt")
  /\ dec.result = Ok(2)

\* C2: with the shares generateKeys made (5 shares, threshold 3) loaded,
\* thresholdDecrypt(c, 3) returns exactly what decrypt(c, privateKey)
\* returns with the generated private key, for every ciphertext c; for a
\* sum of votes below n under a key of distinct primes that is the sum.
ThresholdRoundTrip ==
  (IF dec = NULL \/ keygen = NULL THEN FALSE
   ELSE keygen.ok /\ dec.op = "thresholdDecrypt" /\ dec.threshold = thresholdK)
  => /\ dec.result.ok
     /\ dec.result = decrypt(dec.ciphertext,
                             [lambda |-> lcm(keygen.val.p - 1, keygen.val.q - 1),
                              mu |-> privateKeyShares.mu,
                              n |-> privateKeyShares.n,
                              nsq |-> privateKeyShares.nsq])
     /\ (/\ DistinctPrimes
         /\ DecryptedSum("thresholdDecrypt")
         /\ AllUnderEngineKey
         /\ SumVotes(ballots, 1) < publicKey.n)
        => dec.result = Ok(SumVotes(ballots, 1))

\* the hydrated engine (shares loaded from their serialized form, no private
\* key) threshold-decrypted the sum of votes 1 and 1 with 3 shares
ThresholdRoundTripWitness ==
  /\ DistinctPrimes
  /\ privateKey = NULL
  /\ Len(ballots) = 2
  /\ SumVotes(ballots, 1) = 2
  /\ DecryptedSum("thresholdDecrypt")
  /\ dec.threshold = thresholdK
  /\ dec.result = Ok(2)

\* the number of key shares loaded in the engine
SharesLoaded ==
  IF privateKeyShares # NULL /\ Has(privateKeyShares, "shares")
  THEN Len(privateKeyShares.shares) ELSE 0

\* C5 as stated: thresholdDecrypt(ciphertext, k) with fewer than k shares
\* loaded fails with the insufficient-shares error naming how many shares
\* are needed and how many are available, and returns no plaintext.
InsufficientSharesError ==
  (IF dec = NULL THEN FALSE
   ELSE dec.op = "thresholdDecrypt" /\ SharesLoaded < dec.threshold)
  => dec.result = ErrInsufficient(dec.threshold, SharesLoaded)

\* C6: encrypt with a public key whose n <= 100 fails with the
\* key-too-small error before any random bytes are drawn, and no ciphertext
\* is returned for such a key.
CorruptedKeyGuard ==
  /\ (IF enc = NULL THEN FALSE
      ELSE IF enc.key = NULL THEN FALSE ELSE enc.key.n <= 100)
     => /\ enc.status = "done"
        /\ enc.result = Err("Public key n is too small. Keys may be corrupted.")
        /\ enc.draws = 0
  /\ \A i \in 1..Len(ballots) : ballots[i].key.n > 100

\* encrypt was called with a key of n = 100 and threw
CorruptedKeyGuardWitness ==
  IF enc = NULL THEN FALSE
  ELSE IF enc.key = NULL THEN FALSE
  ELSE enc.key.n = 100 /\ enc.status = "done" /\ ~enc.result.ok

\* C7: under a key of two distinct primes, two encrypt calls for the same
\* vote v in [0, n) that drew different randomness returned different
\* ciphertexts, and decrypt of each returned ciphertext gives v.
EncryptionNonDeterminism ==
  (ValidKeyPair /\ AllUnderEngineKey)
  => /\ \A i, j \in 1..Len(ballots) :
          (ballots[i].vote = ballots[j].vote
             /\ ballots[i].randomness # ballots[j].randomness)
          => ballots[i].ciphertext # ballots[j].ciphertext
     /\ (IF dec = NULL THEN FALSE ELSE dec.op = "decrypt")
        => \A i \in 1..Len(ballots) :
             dec.ciphertext = ballots[i].ciphertext
             => dec.result = Ok(ballots[i].vote)

\* the vote n-1 was encrypted twice with different randomness and the second
\* ciphertext decrypted to n-1
EncryptionNonDeterminismWitness ==
  /\ ValidKeyPair
  /\ Len(ballots) = 2
  /\ ballots[1].vote = publicKey.n - 1
  /\ ballots[2].vote = publicKey.n - 1
  /\ ballots[1].randomness # ballots[2].randomness
  /\ ballots[1].ciphertext # ballots[2].ciphertext
  /\ (IF dec = NULL THEN FALSE
      ELSE dec.op = "decrypt" /\ dec.ciphertext = ballots[2].ciphertext
           /\ dec.result = Ok(publicKey.n - 1))

InitSharing ==
  /\ NoEngine
  /\ NoCalls
  /\ NoServices
  /\ \E modulus \in ShareModuli, n \in 1..MaxShares :
       \E secret \in SecretsOf(modulus), k \in 1..n :
         ss = [phase |-> "input", secret |-> secret, n |-> n, k |-> k,
               modulus |-> modulus, shares |-> <<>>, used |-> <<>>,
               result |-> NULL]

\* the caller splits the secret: generateSecretShares(secret, n, k, modulus)
SplitSecret ==
  /\ ss.phase = "input"
  /\ \E raws \in SeqsOf(CoefficientDraws, ss.k - 1) :
       LET randoms == [j \in 1..(ss.k - 1) |-> generateRandomBigInt(raws[j], ss.modulus)]
       IN ss' = [ss EXCEPT !.phase = "shared",
                   !.shares = generateSecretShares(ss.secret, ss.n, ss.k, ss.modulus, randoms)]
  /\ UNCHANGED <<engineVars, heVars, serviceVars>>

\* the caller reconstructs from a selection of the shares:
\* reconstructSecret(selection, modulus)
Reconstruct ==
  /\ ss.phase \in {"shared", "reconstructed"}
  /\ \E S \in SUBSET (1..ss.n) :
       LET selection == Pick(ss.shares, S, 1)
       IN ss' = [ss EXCEPT !.phase = "reconstructed", !.used = selection,
                   !.result = reconstructSecret(selection, ss.modulus)]
  /\ UNCHANGED <<engineVars, heVars, serviceVars>>

NextSharing == SplitSecret \/ Reconstruct

SpecSharing == InitSharing /\ [][NextSharing]_vars

\* gcd of two integers of any sign
AbsGcd(a, b) == gcd(IF a < 0 THEN 0 - a ELSE a, IF b < 0 THEN 0 - b ELSE b)

\* the modulus is coprime to every nonzero difference of two share ids
CoprimeToIdDifferences(n, modulus) ==
  \A i, j \in 1..n : i # j => AbsGcd(i - j, modulus) = 1

\* C3: reconstructSecret applied to any k of the shares that
\* generateSecretShares(secret, n, k, modulus) returned yields the original
\* secret (hence the same value for every k-subset), as a residue in
\* [0, modulus), provided the modulus is coprime to the differences of ids.
ThresholdCorrectness ==
  (/\ ss.phase = "reconstructed"
   /\ Len(ss.used) = ss.k
   /\ CoprimeToIdDifferences(ss.n, ss.modulus))
  => /\ ss.result = Ok(ss.secret)
     /\ ss.result.val \in 0..(ss.modulus - 1)

\* a reconstruction from k = 3 shares other than the first three, with
\* nonzero coefficients, has happened
ThresholdCorrectnessWitness ==
  /\ ss.phase = "reconstructed"
  /\ ss.k = 3
  /\ Len(ss.used) = 3
  /\ ss.used[1].id = 2
  /\ ss.modulus = 437
  /\ ss.secret = 436
  /\ ss.shares[1].value # ss.secret
  /\ ss.result = Ok(ss.secret)

\* C4 as stated: a reconstruction from fewer than k shares fails with an
\* error and returns no secret.
InsufficientSharesFail ==
  (ss.phase = "reconstructed" /\ Len(ss.used) < ss.k) => ~ss.result.ok

(***************************************************************************)
(* Zero-knowledge proof service (ZeroKnowledgeProof).                      *)
(*                                                                         *)
(* secp256k1 is a cyclic group of prime order CURVE.n.  A point is         *)
(* modelled by its discrete logarithm to the base point (0 is the point at *)
(* infinity) and the order is scaled down to a small prime.  Strings are   *)
(* sequences of one-character strings, as for the decimal numerals above.  *)
(***************************************************************************)

\* secp256k1.CURVE.n, scaled
curveOrder == 101

\* secp256k1.Point.BASE
PointBASE == 1

\* the second generator h that generateCommitment reads with Point.fromHex
PointH == 7

HexChars == <<"0", "1", "2", "3", "4", "5", "6", "7", "8", "9",
              "a", "b", "c", "d", "e", "f">>

IsHexChar(c) == \E d \in 1..16 : HexChars[d] = c

HexOf(c) == (CHOOSE d \in 1..16 : HexChars[d] = c) - 1

\* x.toString(16) for a BigInt x >= 0
RECURSIVE ToHexStr(_)
ToHexStr(x) ==
  IF x < 16 THEN <<HexChars[x + 1]>>
  ELSE ToHexStr(x \div 16) \o <<HexChars[(x % 16) + 1]>>

IsHexSeq(s) == \A i \in 1..Len(s) : IsHexChar(s[i])

RECURSIVE HexValue(_)
HexValue(s) ==
  IF Len(s) = 0 THEN 0
  ELSE 16 * HexValue(SubSeq(s, 1, Len(s) - 1)) + HexOf(s[Len(s)])

\* BigInt('0x' + s): a SyntaxError unless s is a non-empty hex numeral
HexToBigInt(s) ==
  IF Len(s) > 0 /\ IsHexSeq(s) THEN Ok(HexValue(s)) ELSE Err("SyntaxError")

\* Point.multiply(scalar): the scalar must lie in 1..CURVE.n-1
PointMultiply(P, scalar) ==
  IF scalar > 0 /\ scalar < curveOrder
  THEN Ok((P * scalar) % curveOrder)
  ELSE Err("Expected valid private scalar")

\* Point.add(other)
PointAdd(P, Q) == (P + Q) % curveOrder

\* Point.toHex(): the prefix byte and the coordinate
PointToHex(P) == <<"0", "2">> \o ToHexStr(P)

\* Point.fromHex(hex): throws unless hex spells a point of the curve
PointFromHex(hex) ==
  IF Len(hex) > 2 /\ IsHexSeq(hex) /\ SubSeq(hex, 1, 2) = <<"0", "2">>
  THEN LET P == HexValue(SubSeq(hex, 3, Len(hex)))
       IN IF P > 0 /\ P < curveOrder /\ PointToHex(P) = hex
          THEN Ok(P) ELSE Err("Point is not on curve")
  ELSE Err("Point.fromHex: invalid hex")

\* the characters hashed inputs are made of
HashChars == HexChars \o <<":", "-", "u", "n", "i">>

CharCode(c) == CHOOSE d \in 1..Len(HashChars) : HashChars[d] = c

\* range of the stand-in for SHA-256 read as a number
HashModulus == 65521

\* BigInt('0x' + createHash('sha256').update(text).digest().toString('hex')):
\* a fixed function of the text; the stand-in folds the characters
RECURSIVE sha256Int(_)
sha256Int(text) ==
  IF Len(text) = 0 THEN 7
  ELSE (sha256Int(SubSeq(text, 1, Len(text) - 1)) * 31 + CharCode(text[Len(text)]))
         % HashModulus

\* createHash('sha256').update(text).digest('hex'), which the code only
\* compares for equality: a collision-free image of the text
sha256Hex(text) == <<"#">> \o text

RECURSIVE Join(_)
Join(texts) == IF Len(texts) = 0 THEN <<>> ELSE Head(texts) \o Join(Tail(texts))

\* ZeroKnowledgeProof.generateCommitment(vote, randomness)
generateCommitment(vote, randomness) ==
  LET voteScalar == sha256Int(ToStr(vote)) % curveOrder
      randomnessScalar == sha256Int(randomness) % curveOrder
      gv == PointMultiply(PointBASE, voteScalar)
      hr == PointMultiply(PointH, randomnessScalar)
  IN IF ~gv.ok THEN gv
     ELSE IF ~hr.ok THEN hr
     ELSE Ok([commitment |-> PointToHex(PointAdd(gv.val, hr.val)),
              voteScalar |-> ToHexStr(voteScalar),
              randomnessScalar |-> ToHexStr(randomnessScalar)])

\* ZeroKnowledgeProof.generateSigmaProof(isVoted, commitment, candidateIndex),
\* where draw holds the values the random bytes r, c and z spell
generateSigmaProof(isVoted, commitment, candidateIndex, draw) ==
  LET rScalar == draw.r % curveOrder
      a == PointMultiply(PointBASE, rScalar)
  IN IF ~a.ok THEN a
     ELSE IF isVoted
     THEN Ok([candidateIndex |-> candidateIndex, a |-> PointToHex(a.val),
              z |-> ToHexStr(rScalar), type |-> "real"])
     ELSE LET zScalar == draw.z % curveOrder
          IN Ok([candidateIndex |-> candidateIndex, a |-> PointToHex(a.val),
                 c |-> ToHexStr(draw.c), z |-> ToHexStr(zScalar),
                 type |-> "simulated"])

\* ZeroKnowledgeProof.generateChallenge(proofs)
generateChallenge(proofs) ==
  sha256Hex(Join([i \in 1..Len(proofs) |-> proofs[i].a]))

\* ZeroKnowledgeProof.generateProof(vote, candidates, commitment) at time
\* `time`, draws[i] being the random bytes of the i-th sigma proof
generateProof(vote, candidates, commitment, draws, time) ==
  LET sigma == [i \in 1..Len(candidates) |->
                  generateSigmaProof(vote = i - 1, commitment, i - 1, draws[i])]
      thrown == {i \in 1..Len(candidates) : ~sigma[i].ok}
  IN IF thrown # {}
     THEN sigma[CHOOSE i \in thrown : \A j \in thrown : i <= j]
     ELSE LET proofs == [i \in 1..Len(candidates) |-> sigma[i].val]
          IN Ok([proofs |-> proofs, challenge |-> generateChallenge(proofs),
                 timestamp |-> time])

\* ZeroKnowledgeProof.verifySigmaProof(sigmaProof, commitment): any throw
\* inside is caught and answered false
verifySigmaProof(sigmaProof, commitment) ==
  LET a == PointFromHex(sigmaProof.a)
  IN IF ~a.ok THEN FALSE
     ELSE IF sigmaProof.type = "real"
     THEN LET z == HexToBigInt(sigmaProof.z)
          IN IF ~z.ok THEN FALSE
             ELSE LET gz == PointMultiply(PointBASE, z.val)
                  IN IF ~gz.ok THEN FALSE ELSE gz.val = a.val
     ELSE IF ~Has(sigmaProof, "c") \/ ~Has(sigmaProof, "z") THEN FALSE
     ELSE LET c == HexToBigInt(sigmaProof.c)
              z == HexToBigInt(sigmaProof.z)
          IN IF ~c.ok \/ ~z.ok THEN FALSE ELSE TRUE

\* verifyProof comparing the challenge before it verifies the sigma proofs
verifyProofChallengeFirst(proof, commitment, candidates) ==
  LET proofs == proof.proofs
      failed == {i \in 1..Len(proofs) : ~verifySigmaProof(proofs[i], commitment)}
  IN IF Len(proofs) # Len(candidates)
     THEN [isValid |-> FALSE, reason |-> "Invalid proof count"]
     ELSE IF generateChallenge(proofs) # proof.challenge
     THEN [isValid |-> FALSE, reason |-> "Invalid challenge"]
     ELSE IF failed # {}
     THEN [isValid |-> FALSE, reason |-> "Invalid sigma proof for candidate",
           candidateIndex |-> proofs[CHOOSE i \in failed : \A j \in failed : i <= j].candidateIndex]
     ELSE [isValid |-> TRUE]

\* ZeroKnowledgeProof.verifyProof(proof, commitment, candidates)
verifyProof(proof, commitment, candidates) ==
  LET proofs == proof.proofs
      failed == {i \in 1..Len(proofs) : ~verifySigmaProof(proofs[i], commitment)}
  IN IF Len(proofs) # Len(candidates)
     THEN [isValid |-> FALSE, reason |-> "Invalid proof count"]
     ELSE IF failed # {}
     THEN [isValid |-> FALSE, reason |-> "Invalid sigma proof for candidate",
           candidateIndex |-> proofs[CHOOSE i \in failed : \A j \in failed : i <= j].candidateIndex]
     ELSE IF generateChallenge(proofs) # proof.challenge
     THEN [isValid |-> FALSE, reason |-> "Invalid challenge"]
     ELSE [isValid |-> TRUE]

\* ZeroKnowledgeProof.generateNullifierProof(scalar, randomness), r being
\* the value its random bytes spell
generateNullifierProof(scalar, randomness, r) ==
  LET rScalar == r % curveOrder
      randomnessScalar == sha256Int(randomness) % curveOrder
  IN [commitment |-> ToHexStr(rScalar),
      response |-> ToHexStr(rScalar + scalar * randomnessScalar),
      randomnessUsed |-> randomness]

\* the string generateNullifier hashes
nullifierInput(userId, electionId, randomness, time) ==
  ToStr(userId) \o <<":">> \o ToStr(electionId) \o <<":">> \o randomness
    \o <<":">> \o ToStr(time)

\* ZeroKnowledgeProof.generateNullifier(userId, electionId, randomness)
\* called when Date.now() is `time`
generateNullifier(userId, electionId, randomness, time, r) ==
  LET input == nullifierInput(userId, electionId, randomness, time)
      scalar == sha256Int(input) % curveOrder
      nullifier == PointMultiply(PointBASE, scalar)
  IN IF ~nullifier.ok THEN nullifier
     ELSE Ok([nullifier |-> PointToHex(nullifier.val),
              proof |-> generateNullifierProof(scalar, randomness, r)])

\* ZeroKnowledgeProof.verifyNullifierProof(nullifierData, userId, electionId)
verifyNullifierProof(nullifierData, userId, electionId) ==
  LET input == ToStr(userId) \o <<":">> \o ToStr(electionId) \o <<":">>
                 \o nullifierData.proof.randomnessUsed
      expectedScalar == sha256Int(input) % curveOrder
      expectedNullifier == PointMultiply(PointBASE, expectedScalar)
  IN IF ~expectedNullifier.ok THEN FALSE
     ELSE PointToHex(expectedNullifier.val) = nullifierData.nullifier

\* ZeroKnowledgeProof.isNullifierUnique(nullifier, existingNullifiers)
isNullifierUnique(nullifier, existingNullifiers) ==
  \A i \in 1..Len(existingNullifiers) : existingNullifiers[i] # nullifier

(***************************************************************************)
(* The proof service as a prover and a verifier drive it                   *)
(***************************************************************************)

\* latest value of the clock in the scenarios
MaxTime == 2

\* votes handed to the prover: the candidate indices and one beyond them
ProofVotes == {0, 1, 2}

\* candidate lists
CandidateLists == {<<"A", "B">>, <<"A", "B", "C">>}

\* per-vote randomness strings, as encrypt returns them
RandomnessTexts == {ToStr(2), ToStr(19)}

\* values the random bytes of one sigma proof spell; r = 101 reduces to the
\* scalar 0, which Point.multiply rejects
SigmaDraws == {[r |-> 5, c |-> 300, z |-> 9], [r |-> 110, c |-> 41, z |-> 205],
               [r |-> 101, c |-> 1, z |-> 1]}

\* the clock advances, up to limit
Tick(limit) ==
  /\ now < limit
  /\ now' = now + 1
  /\ UNCHANGED <<engineVars, heVars, ss, bundle, verdict, nullifierCalls,
                 requests, storeVars, mix>>

\* the prover commits to its vote and proves it:
\* generateCommitment(vote, randomness), generateProof(vote, candidates, commitment)
GenerateProof ==
  /\ \E vote \in ProofVotes, candidates \in CandidateLists,
        randomness \in RandomnessTexts :
       \E draws \in SeqsOf(SigmaDraws, Len(candidates)) :
         LET commitment == generateCommitment(vote, randomness)
         IN bundle' = [vote |-> vote, candidates |-> candidates,
                       randomness |-> randomness, commitment |-> commitment,
                       proof |-> IF commitment.ok
                                 THEN generateProof(vote, candidates, commitment.val,
                                                    draws, now)
                                 ELSE commitment]
  /\ verdict' = NULL
  /\ UNCHANGED <<engineVars, heVars, ss, now, nullifierCalls, requests, storeVars, mix>>

HasBundle == IF bundle = NULL THEN FALSE ELSE bundle.proof.ok

\* the verifier checks the bundle against a commitment it holds:
\* verifyProof(proof, commitment, candidates)
VerifyProof ==
  /\ HasBundle
  /\ verdict = NULL
  /\ \E vote \in ProofVotes, randomness \in RandomnessTexts :
       LET commitment == generateCommitment(vote, randomness)
       IN /\ commitment.ok
          /\ verdict' = [vote |-> vote, randomness |-> randomness,
                         commitment |-> commitment.val,
                         result |-> verifyProof(bundle.proof.val, commitment.val,
                                                bundle.candidates)]
  /\ UNCHANGED <<engineVars, heVars, ss, now, bundle, nullifierCalls, requests,
                 storeVars, mix>>

InitServices ==
  /\ NoEngine
  /\ NoCalls
  /\ NoServices
  /\ ss = NULL

NextProof == Tick(MaxTime) \/ GenerateProof \/ VerifyProof

SpecProof == InitServices /\ [][NextProof]_vars

\* C8 (proof soundness): a proof generated for vote v, verified against a
\* commitment to a different vote, is answered isValid = false.
ProofSoundness ==
  IF verdict = NULL THEN TRUE
  ELSE (verdict.vote # bundle.vote /\ verdict.commitment # bundle.commitment.val)
         => ~verdict.result.isValid

(***************************************************************************)
(* Nullifiers as callers derive them                                       *)
(***************************************************************************)

\* most generateNullifier calls followed
MaxNullifierCalls == 2

\* voters and elections
Users == {1, 2}
Elections == {1, 2}

\* values the random bytes of generateNullifierProof spell
NullifierDraws == {5}

\* a caller derives a nullifier: generateNullifier(userId, electionId, randomness)
GenerateNullifier ==
  /\ Len(nullifierCalls) < MaxNullifierCalls
  /\ \E userId \in Users, electionId \in Elections, randomness \in RandomnessTexts,
        r \in NullifierDraws :
       nullifierCalls' = Append(nullifierCalls,
         [userId |-> userId, electionId |-> electionId, randomness |-> randomness,
          time |-> now,
          result |-> generateNullifier(userId, electionId, randomness, now, r)])
  /\ UNCHANGED <<engineVars, heVars, ss, now, bundle, verdict, requests, storeVars, mix>>

NextNullifier == Tick(MaxTime) \/ GenerateNullifier

SpecNullifier == InitServices /\ [][NextNullifier]_vars

\* C9 (nullifier determinism): two generateNullifier calls with the same
\* voter, election and randomness return the same nullifier value.
NullifierDeterminism ==
  \A i, j \in 1..Len(nullifierCalls) :
    LET a == nullifierCalls[i]
        b == nullifierCalls[j]
    IN (a.userId = b.userId /\ a.electionId = b.electionId
          /\ a.randomness = b.randomness /\ a.result.ok /\ b.result.ok)
         => a.result.val.nullifier = b.result.val.nullifier

(***************************************************************************)
(* CryptoController: generateElectionKeys and processVote over the store.  *)
(*                                                                         *)
(* A request is followed from one await to the next: a step is the store   *)
(* executing the awaited statement together with the handler code that     *)
(* runs until the next await.  The one controller serves all requests and  *)
(* owns the one engine (publicKey, privateKey, ...).                       *)
(***************************************************************************)

\* most generateElectionKeys / processVote requests followed
MaxKeyRequests == 1
MaxVoteRequests == 2

\* latest value of the clock while requests are served
MaxVoteTime == 1

\* the elections requests name, and the users who ask for their keys
VoteElections == {1}
ElectionAdmins == {1}

\* most statements the store is made to fail
MaxDbFailures == 1

\* values the random bytes of encrypt spell inside processVote
VoteDraws == {0, 17}

\* values the random bytes of the sigma proofs spell inside processVote
VoteSigmaDraws == {[r |-> 5, c |-> 300, z |-> 9]}

\* values the random bytes of generateVerificationCode spell
ReceiptDraws == {11}

\* uuidv4(): the k-th identifier issued to request rid
uuidv4(rid, k) == <<"u">> \o ToStr(rid) \o <<"-">> \o ToStr(k)

\* the results encrypt(vote) can return or throw under key when every draw of
\* its random loop comes from draws: those of a loop that ends at once, and
\* those of a loop that ends at its last attempt (reachable when some draw
\* makes the loop repeat)
encryptResults(vote, key, draws) ==
  LET e == encryptEnter(vote, key)
      first == {encryptIteration(vote, key, 0, raw) : raw \in draws}
      last == {encryptIteration(vote, key, maxAttempts - 1, raw) : raw \in draws}
  IN IF ~e.ok THEN {e}
     ELSE {it.result : it \in {x \in first : ~x.loop}}
            \cup (IF \E x \in first : x.loop THEN {it.result : it \in last} ELSE {})

\* CryptoController.calculateVoteHash(voteId, encryptedVote)
calculateVoteHash(voteId, encryptedVote) ==
  sha256Hex(voteId \o <<":">> \o encryptedVote.ciphertext \o <<",">>
              \o encryptedVote.randomness)

\* CryptoController.calculateHashChain(data, electionId) at time `time`
calculateHashChain(data, electionId, time) ==
  sha256Hex(data \o <<":">> \o ToStr(electionId) \o <<":">> \o ToStr(time))

\* ReceiptGeneration.generateVerificationCode() for the value raw its random
\* bytes spell: the leading hex digits of their digest
generateVerificationCode(raw) == ToHexStr(sha256Int(ToStr(raw)))

\* ReceiptGeneration.generateReceipt(voteData, encryptedVote, zkProof)
generateReceipt(voteData, encryptedVote, zkProof, receiptId, raw, time) ==
  LET verificationCode == generateVerificationCode(raw)
      receiptHash == sha256Hex(receiptId \o <<",">> \o voteData.voteId \o <<",">>
                       \o ToStr(voteData.electionId) \o <<",">>
                       \o ToStr(voteData.userId) \o <<",">> \o ToStr(time)
                       \o <<",">> \o verificationCode \o <<",">>
                       \o encryptedVote.commitment \o <<",">> \o zkProof.challenge)
  IN [receiptId |-> receiptId, verificationCode |-> verificationCode,
      receiptHash |-> receiptHash]

\* the cryptographic components of processVote after encrypt returned
\* encryptedVote, and the record it prepares for EncryptedVote.create
prepareVote(rid, body, key, encryptedVote, draws, r, time) ==
  LET voteId == uuidv4(rid, 1)
      commitment == generateCommitment(body.vote, encryptedVote.randomness)
  IN IF ~commitment.ok THEN commitment
     ELSE LET proof == generateProof(body.vote, body.candidates, commitment.val,
                                     draws, time)
          IN IF ~proof.ok THEN proof
             ELSE LET nullifier == generateNullifier(body.userId, body.electionId,
                                     encryptedVote.randomness, time, r)
                  IN IF ~nullifier.ok THEN nullifier
                     ELSE Ok([vote_id |-> voteId,
                              election_id |-> body.electionId,
                              user_id |-> body.userId,
                              encrypted_vote |-> encryptedVote,
                              homomorphic_data |->
                                [ciphertext |-> encryptedVote.ciphertext,
                                 publicKey |-> serializePublicKey(key)],
                              zk_proof |-> proof.val,
                              mixnet_data |->
                                [encryptedVote |-> encryptedVote.ciphertext,
                                 timestamp |-> time, round |-> 0],
                              commitment |-> commitment.val.commitment,
                              nullifier |-> nullifier.val.nullifier,
                              vote_hash |-> calculateVoteHash(voteId, encryptedVote),
                              encryption_version |-> <<"1", ".", "0">>])

\* the indexes of the rows of vottery_homomorphic_keys that
\* WHERE election_id = $1 AND key_status = 'active' selects
ActiveKeys(electionId) ==
  {k \in 1..Len(keysTable) : keysTable[k].election_id = electionId
                               /\ keysTable[k].key_status = "active"}

RequestsOf(handler) == {i \in 1..Len(requests) : requests[i].handler = handler}

At(i, handler, pc) == requests[i].handler = handler /\ requests[i].pc = pc

\* the statements of the store that failed so far
DbFailures ==
  {i \in 1..Len(requests) :
     IF requests[i].response = NULL THEN FALSE
     ELSE requests[i].response.status = 500
            /\ requests[i].response.error = "database error"}

\* the statement awaited fails: the catch block answers 500
DbFails(i) ==
  /\ Cardinality(DbFailures) < MaxDbFailures
  /\ requests' = [requests EXCEPT ![i].pc = "done",
                    ![i].response = [status |-> 500, error |-> "database error"]]

Responds(i, response) ==
  requests' = [requests EXCEPT ![i].pc = "done", ![i].response = response]

\* POST /keys arrives: generateElectionKeys(req, res) up to its first await
ReceiveGenerateElectionKeys(limit, elections) ==
  /\ Cardinality(RequestsOf("generateElectionKeys")) < limit
  /\ \E electionId \in elections, userId \in ElectionAdmins :
       requests' = Append(requests,
         [handler |-> "generateElectionKeys",
          body |-> [electionId |-> electionId, userId |-> userId],
          pc |-> "existingKeys", local |-> NULL, response |-> NULL])
  /\ UNCHANGED <<engineVars, heVars, ss, zkVars, storeVars, mix>>

\* generateElectionKeys without the rows.length > 0 test of its existence query
GkExistingKeysOverwriting(i) ==
  /\ At(i, "generateElectionKeys", "existingKeys")
  /\ requests' = [requests EXCEPT ![i].pc = "generateKeys"]
  /\ UNCHANGED <<engineVars, heVars, ss, zkVars, storeVars, mix>>

\* generateElectionKeys: the existence query returns
GkExistingKeys(i) ==
  /\ At(i, "generateElectionKeys", "existingKeys")
  /\ IF ActiveKeys(requests[i].body.electionId) # {}
     THEN Responds(i, [status |-> 409,
                       message |-> "Keys already exist for this election"])
     ELSE requests' = [requests EXCEPT ![i].pc = "generateKeys"]
  /\ UNCHANGED <<engineVars, heVars, ss, zkVars, storeVars, mix>>

\* generateElectionKeys: this.homomorphic.generateKeys() completes
GkGenerateKeys(i) ==
  /\ At(i, "generateElectionKeys", "generateKeys")
  /\ \/ \E p, q \in GeneratablePrimes(keySize \div 2) :
          \E raws \in SeqsOf(KeyShareDraws, thresholdK - 1) :
            LET randoms == [j \in 1..(thresholdK - 1) |->
                              generateRandomBigInt(raws[j], p * q)]
                out == generateKeys(p, q, randoms)
            IN IF out.ok
               THEN /\ publicKey' = out.val.publicKey
                    /\ privateKey' = out.val.privateKey
                    /\ privateKeyShares' = out.val.privateKeyShares
                    /\ thresholdParams' = out.val.thresholdParams
                    /\ keygen' = Ok([p |-> p, q |-> q])
                    /\ requests' = [requests EXCEPT ![i].pc = "insertKey",
                                                    ![i].local = out.val]
               ELSE /\ keygen' = out
                    /\ Responds(i, [status |-> 500, error |-> out.err])
                    /\ UNCHANGED <<publicKey, privateKey, privateKeyShares,
                                   thresholdParams>>
     \/ /\ PrimeSearchCanFail(keySize \div 2)
        /\ keygen' = Err("Failed to generate prime")
        /\ Responds(i, [status |-> 500, error |-> "Failed to generate prime"])
        /\ UNCHANGED <<publicKey, privateKey, privateKeyShares, thresholdParams>>
  /\ UNCHANGED <<heVars, ss, zkVars, storeVars, mix>>

\* the row the INSERT of generateElectionKeys stores for the keys generated
insertedKey(keyId, body, keys) ==
  [key_id |-> keyId,
   election_id |-> body.electionId,
   public_key |-> serializePublicKey(keys.publicKey),
   private_key_shares |-> serializeKeyShares(keys.privateKeyShares),
   key_size |-> keySize,
   threshold_n |-> keys.thresholdParams.n,
   threshold_k |-> keys.thresholdParams.k,
   generated_by |-> body.userId,
   key_status |-> "active"]

\* generateElectionKeys: the INSERT into vottery_homomorphic_keys returns
GkInsertKey(i) ==
  /\ At(i, "generateElectionKeys", "insertKey")
  /\ \/ /\ keysTable' = Append(keysTable,
              insertedKey(Len(keysTable) + 1, requests[i].body, requests[i].local))
        /\ requests' = [requests EXCEPT ![i].pc = "auditLog",
                          ![i].local = [keyId |-> Len(keysTable) + 1,
                                        publicKey |-> requests[i].local.publicKey]]
     \/ /\ DbFails(i)
        /\ UNCHANGED keysTable
  /\ UNCHANGED <<engineVars, heVars, ss, zkVars, votesTable, receiptsTable, auditTable, mix>>

\* the KEYS_GENERATED entry request rid hands to AuditLog.create
keysGenerated(rid, body, keyId, time) ==
  [audit_id |-> uuidv4(rid, 1),
   election_id |-> body.electionId,
   user_id |-> body.userId,
   action_type |-> "KEYS_GENERATED",
   action_data |-> [keyId |-> keyId],
   hash_chain |-> calculateHashChain(<<"k", "e", "y", "s">>, body.electionId, time),
   previous_hash |-> "previous_hash_placeholder"]

\* generateElectionKeys: AuditLog.create returns and the response is sent
GkAuditLog(i) ==
  /\ At(i, "generateElectionKeys", "auditLog")
  /\ \/ /\ auditTable' = Append(auditTable,
              keysGenerated(i, requests[i].body, requests[i].local.keyId, now))
        /\ Responds(i, [status |-> 201,
                        data |-> [electionId |-> requests[i].body.electionId,
                                  keyId |-> requests[i].local.keyId,
                                  publicKey |->
                                    serializePublicKey(requests[i].local.publicKey)]])
     \/ /\ DbFails(i)
        /\ UNCHANGED auditTable
  /\ UNCHANGED <<engineVars, heVars, ss, zkVars, keysTable, votesTable, receiptsTable, mix>>

\* vote requests of an election with the candidates A and B, cast for B
VoteCandidates == <<"A", "B">>
BallotChoices == {1}

\* POST /vote arrives: processVote(req, res) up to its first await
ReceiveProcessVote(limit, elections, users) ==
  /\ Cardinality(RequestsOf("processVote")) < limit
  /\ \E electionId \in elections, userId \in users, vote \in BallotChoices :
       requests' = Append(requests,
         [handler |-> "processVote",
          body |-> [electionId |-> electionId, userId |-> userId, vote |-> vote,
                    candidates |-> VoteCandidates],
          pc |-> "loadElectionKeys", local |-> NULL, response |-> NULL])
  /\ UNCHANGED <<engineVars, heVars, ss, zkVars, storeVars, mix>>

\* processVote: the key query of loadElectionKeys returns; setPublicKey,
\* encrypt, generateCommitment, generateProof and generateNullifier run, and
\* the vote record is handed to EncryptedVote.create
PvLoadElectionKeys(i) ==
  /\ At(i, "processVote", "loadElectionKeys")
  /\ LET body == requests[i].body
     IN IF ActiveKeys(body.electionId) = {}
        THEN /\ Responds(i, [status |-> 400, message |-> "Election keys not found"])
             /\ UNCHANGED publicKey
        ELSE \E k \in ActiveKeys(body.electionId) :
               LET key == setPublicKey(keysTable[k].public_key)
               IN IF ~key.ok
                  THEN /\ Responds(i, [status |-> 500, error |-> key.err])
                       /\ UNCHANGED publicKey
                  ELSE /\ publicKey' = key.val
                       /\ \E e \in encryptResults(body.vote, key.val, VoteDraws),
                             draws \in SeqsOf(VoteSigmaDraws, Len(body.candidates)),
                             r \in NullifierDraws :
                            LET out == IF e.ok
                                       THEN prepareVote(i, body, key.val, e.val,
                                                        draws, r, now)
                                       ELSE e
                            IN IF out.ok
                               THEN requests' = [requests EXCEPT
                                                   ![i].pc = "createVote",
                                                   ![i].local = out.val]
                               ELSE Responds(i, [status |-> 500, error |-> out.err])
  /\ UNCHANGED <<privateKey, privateKeyShares, thresholdParams, keygen, heVars, ss,
                 zkVars, storeVars, mix>>

\* the receipt processVote generates for the vote record of request rid
receiptOf(rid, voteData, raw, time) ==
  generateReceipt([voteId |-> voteData.vote_id,
                   electionId |-> voteData.election_id,
                   userId |-> voteData.user_id],
                  [commitment |-> voteData.commitment],
                  voteData.zk_proof, uuidv4(rid, 2), raw, time)

\* the row processVote hands to Receipt.create
insertedReceipt(voteData, receipt) ==
  [receipt_id |-> receipt.receiptId,
   vote_id |-> voteData.vote_id,
   election_id |-> voteData.election_id,
   user_id |-> voteData.user_id,
   receipt_hash |-> receipt.receiptHash,
   verification_code |-> receipt.verificationCode]

\* the VOTE_CAST entry request rid hands to AuditLog.create
voteCast(rid, voteData, time) ==
  [audit_id |-> uuidv4(rid, 3),
   election_id |-> voteData.election_id,
   user_id |-> voteData.user_id,
   action_type |-> "VOTE_CAST",
   action_data |-> [voteId |-> voteData.vote_id],
   hash_chain |-> calculateHashChain(voteData.vote_id, voteData.election_id, time),
   previous_hash |-> "previous_hash_placeholder"]

\* processVote: EncryptedVote.create returns; the receipt is generated and
\* handed to Receipt.create
PvCreateVote(i) ==
  /\ At(i, "processVote", "createVote")
  /\ \/ /\ votesTable' = Append(votesTable, requests[i].local)
        /\ \E raw \in ReceiptDraws :
             requests' = [requests EXCEPT ![i].pc = "createReceipt",
                            ![i].local = [voteData |-> requests[i].local,
                                          receipt |-> receiptOf(i, requests[i].local,
                                                                raw, now)]]
     \/ /\ DbFails(i)
        /\ UNCHANGED votesTable
  /\ UNCHANGED <<engineVars, heVars, ss, zkVars, keysTable, receiptsTable, auditTable, mix>>

\* processVote: Receipt.create returns; the audit entry is handed to
\* AuditLog.create
PvCreateReceipt(i) ==
  /\ At(i, "processVote", "createReceipt")
  /\ \/ /\ receiptsTable' = Append(receiptsTable,
              insertedReceipt(requests[i].local.voteData, requests[i].local.receipt))
        /\ requests' = [requests EXCEPT ![i].pc = "auditLog"]
     \/ /\ DbFails(i)
        /\ UNCHANGED receiptsTable
  /\ UNCHANGED <<engineVars, heVars, ss, zkVars, keysTable, votesTable, auditTable, mix>>

\* processVote: AuditLog.create returns and the response is sent
PvAuditLog(i) ==
  /\ At(i, "processVote", "auditLog")
  /\ \/ /\ auditTable' = Append(auditTable,
              voteCast(i, requests[i].local.voteData, now))
        /\ Responds(i, [status |-> 201,
                        data |-> [voteId |-> requests[i].local.voteData.vote_id,
                                  receipt |-> requests[i].local.receipt,
                                  commitment |-> requests[i].local.voteData.commitment,
                                  nullifier |-> requests[i].local.voteData.nullifier]])
     \/ /\ DbFails(i)
        /\ UNCHANGED auditTable
  /\ UNCHANGED <<engineVars, heVars, ss, zkVars, keysTable, votesTable, receiptsTable, mix>>

\* the requests received so far
Rids == 1..Len(requests)

NextVote ==
  \/ Tick(MaxVoteTime)
  \/ ReceiveGenerateElectionKeys(MaxKeyRequests, VoteElections)
  \/ ReceiveProcessVote(MaxVoteRequests, VoteElections, Users)
  \/ \E i \in Rids : GkExistingKeys(i)
  \/ \E i \in Rids : GkGenerateKeys(i)
  \/ \E i \in Rids : GkInsertKey(i)
  \/ \E i \in Rids : GkAuditLog(i)
  \/ \E i \in Rids : PvLoadElectionKeys(i)
  \/ \E i \in Rids : PvCreateVote(i)
  \/ \E i \in Rids : PvCreateReceipt(i)
  \/ \E i \in Rids : PvAuditLog(i)

SpecVote == InitServices /\ [][NextVote]_vars

\* the request was answered 201
Accepted(i) ==
  IF requests[i].response = NULL THEN FALSE ELSE requests[i].response.status = 201

SameVoterAndElection(a, b) == a.userId = b.userId /\ a.electionId = b.electionId

\* C10 (double-vote prevention): the store holds at most one EncryptedVote
\* per (voter, election) pair, and of two processVote requests by the same
\* voter in the same election at most one is accepted.
DoubleVotePrevention ==
  /\ \A i, j \in 1..Len(votesTable) :
       (votesTable[i].user_id = votesTable[j].user_id
          /\ votesTable[i].election_id = votesTable[j].election_id) => i = j
  /\ \A i, j \in RequestsOf("processVote") :
       (SameVoterAndElection(requests[i].body, requests[j].body)
          /\ Accepted(i) /\ Accepted(j)) => i = j

(***************************************************************************)
(* Mixnets: shuffleVotes runs shuffleRounds rounds of performShuffle       *)
(***************************************************************************)

\* Mixnets.shuffleRounds
shuffleRounds == 3

\* String(undefined), which `+` makes of a property the object lacks
Undefined == <<"u", "n", "d", "e", "f", "i", "n", "e", "d">>

\* createHash('sha256').update(text).digest('hex') where the code goes on to
\* use the characters of the digest: the hex numeral of the stand-in hash
sha256HexDigits(text) == ToHexStr(sha256Int(text))

\* {...obj, ...upd}
Merge(obj, upd) ==
  [f \in (DOMAIN obj) \cup (DOMAIN upd) |-> IF f \in DOMAIN upd THEN upd[f] ELSE obj[f]]

\* Mixnets.multiplyWithRandomness(ciphertext, randomness)
multiplyWithRandomness(ciphertext, randomness) ==
  sha256HexDigits(ciphertext \o randomness)

\* Mixnets.rerandomize(encryptedVote) at time `time`, raw being the value
\* its random bytes spell
rerandomize(encryptedVote, raw, time) ==
  LET randomFactor == ToHexStr(raw)
      ciphertext == IF Has(encryptedVote, "ciphertext") THEN encryptedVote.ciphertext
                    ELSE Undefined
  IN Merge(encryptedVote,
           [ciphertext |-> multiplyWithRandomness(ciphertext, randomFactor),
            rerandomized |-> TRUE, timestamp |-> time])

\* Math.random() returns u / RandomScale
RandomScale == 6

\* the Fisher-Yates loop of generatePermutation from index i down, us[i]
\* being the draw of Math.random() at index i; the array is kept 1-based,
\* its values are the 0-based indices of the source
RECURSIVE PermutationLoop(_, _, _)
PermutationLoop(permutation, i, us) ==
  IF i <= 0 THEN permutation
  ELSE LET j == (us[i] * (i + 1)) \div RandomScale
       IN PermutationLoop([permutation EXCEPT ![i + 1] = permutation[j + 1],
                                              ![j + 1] = permutation[i + 1]],
                          i - 1, us)

\* Mixnets.generatePermutation(length)
generatePermutation(length, us) ==
  PermutationLoop([k \in 1..length |-> k - 1], length - 1, us)

\* JSON.stringify of a list of votes: the properties each vote has
stringifyVotes(votes) ==
  Join([i \in 1..Len(votes) |->
          <<"{">>
          \o (IF Has(votes[i], "ciphertext") THEN votes[i].ciphertext ELSE <<>>)
          \o (IF Has(votes[i], "randomness")
              THEN <<",">> \o votes[i].randomness ELSE <<>>)
          \o (IF Has(votes[i], "timestamp")
              THEN <<",">> \o ToStr(votes[i].timestamp) ELSE <<>>)
          \o <<"}">>])

\* Mixnets.generateShuffleProof(originalVotes, shuffledVotes, permutation, round)
generateShuffleProof(originalVotes, shuffledVotes, permutation, round, time) ==
  [round |-> round,
   commitment |-> sha256Hex(stringifyVotes(originalVotes) \o <<";">>
                    \o stringifyVotes(shuffledVotes) \o <<";">>
                    \o Join([i \in 1..Len(permutation) |->
                               ToStr(permutation[i]) \o <<",">>])),
   timestamp |-> time,
   nodeId |-> <<"m", "i", "x", "-", "n", "o", "d", "e", "-">> \o ToStr(round),
   verified |-> TRUE]

\* performShuffle putting the first element it picks at every position
performShuffleRepeating(votes, round, us, raws, time) ==
  LET permutation == generatePermutation(Len(votes), us)
      shuffledVotes == [i \in 1..Len(votes) |-> votes[permutation[1] + 1]]
      rerandomizedVotes == [i \in 1..Len(votes) |->
                              rerandomize(shuffledVotes[i], raws[i], time)]
  IN [shuffledVotes |-> rerandomizedVotes,
      proof |-> generateShuffleProof(votes, rerandomizedVotes, permutation, round, time),
      permutation |-> permutation]

\* Mixnets.performShuffle(votes, round) at time `time`: us are the draws of
\* generatePermutation, raws[i] the random bytes of the i-th rerandomize
performShuffle(votes, round, us, raws, time) ==
  LET permutation == generatePermutation(Len(votes), us)
      shuffledVotes == [i \in 1..Len(votes) |-> votes[permutation[i] + 1]]
      rerandomizedVotes == [i \in 1..Len(votes) |->
                              rerandomize(shuffledVotes[i], raws[i], time)]
  IN [shuffledVotes |-> rerandomizedVotes,
      proof |-> generateShuffleProof(votes, rerandomizedVotes, permutation, round, time),
      permutation |-> permutation]

\* the expectedCommitment verifyShuffleProof computes from the two lists
expectedCommitment(originalVotes, shuffledVotes) ==
  sha256Hex(stringifyVotes(originalVotes) \o <<";">> \o stringifyVotes(shuffledVotes))

\* Mixnets.verifyShuffleProof(proof, originalVotes, shuffledVotes); the
\* expectedCommitment it computes is read by no statement after it
verifyShuffleProof(proof, originalVotes, shuffledVotes) ==
  IF Len(originalVotes) # Len(shuffledVotes)
  THEN [isValid |-> FALSE, reason |-> "Vote count mismatch"]
  ELSE [isValid |-> TRUE, commitment |-> proof.commitment,
        verified |-> proof.verified]

(***************************************************************************)
(* The mixnet as a caller drives it: keys are generated, votes encrypted   *)
(* under them are shuffled                                                 *)
(***************************************************************************)

\* longest list of votes handed to shuffleVotes
MaxMixVotes == 2

\* values the random bytes of rerandomize spell
MixDraws == {3, 200}

\* draws of Math.random(), in units of 1 / RandomScale
MathRandoms == 0..(RandomScale - 1)

\* the lists of encrypt outputs for the votes, one randomness choice each
RECURSIVE EncryptedLists(_, _)
EncryptedLists(key, len) ==
  IF len = 0 THEN {<<>>}
  ELSE {Append(list, e.val) :
          list \in EncryptedLists(key, len - 1),
          e \in {x \in UNION {encryptResults(vote, key, VoteDraws) :
                                vote \in CandidateVotes} : x.ok}}

MixIdle == IF mix = NULL THEN TRUE ELSE mix.status = "done"

\* shuffleVotes(encryptedVotes) is called with one of the lists; one call is
\* followed, and the votes each round was handed and returned are kept
ShuffleVotesOf(lists) ==
  /\ mix = NULL
  /\ \E encryptedVotes \in lists :
       mix' = [status |-> "running", input |-> encryptedVotes,
               currentVotes |-> encryptedVotes, round |-> 0, proofs |-> <<>>,
               performed |-> <<>>, result |-> NULL]
  /\ UNCHANGED <<engineVars, heVars, ss, zkVars, requests, storeVars>>

\* shuffleVotes(encryptedVotes) for votes encrypted under the engine's key
ShuffleVotes ==
  /\ publicKey # NULL
  /\ ShuffleVotesOf(UNION {EncryptedLists(publicKey, len) : len \in 0..MaxMixVotes})

\* the loop of shuffleVotes handing every round the votes of the call
PerformShuffleOfInput ==
  /\ ~MixIdle
  /\ \E us \in [1..(Len(mix.input) - 1) -> MathRandoms],
        raws \in [1..Len(mix.input) -> MixDraws] :
       LET shuffleResult == performShuffle(mix.input, mix.round, us, raws, now)
           proofs == Append(mix.proofs, shuffleResult.proof)
           last == mix.round + 1 >= shuffleRounds
       IN mix' = [mix EXCEPT
                    !.status = IF last THEN "done" ELSE "running",
                    !.currentVotes = shuffleResult.shuffledVotes,
                    !.round = mix.round + 1,
                    !.proofs = proofs,
                    !.performed = Append(mix.performed,
                                         [round |-> mix.round, votes |-> mix.input,
                                          shuffledVotes |-> shuffleResult.shuffledVotes]),
                    !.result = IF last
                               THEN [shuffledVotes |-> shuffleResult.shuffledVotes,
                                     proofs |-> proofs, mixNodes |-> 0,
                                     rounds |-> shuffleRounds]
                               ELSE NULL]
  /\ UNCHANGED <<engineVars, heVars, ss, zkVars, requests, storeVars>>

\* one round of the loop of shuffleVotes; after the last one it returns
PerformShuffle ==
  /\ ~MixIdle
  /\ \E us \in [1..(Len(mix.currentVotes) - 1) -> MathRandoms],
        raws \in [1..Len(mix.currentVotes) -> MixDraws] :
       LET shuffleResult == performShuffle(mix.currentVotes, mix.round, us, raws, now)
           proofs == Append(mix.proofs, shuffleResult.proof)
           last == mix.round + 1 >= shuffleRounds
       IN mix' = [mix EXCEPT
                    !.status = IF last THEN "done" ELSE "running",
                    !.currentVotes = shuffleResult.shuffledVotes,
                    !.round = mix.round + 1,
                    !.proofs = proofs,
                    !.performed = Append(mix.performed,
                                         [round |-> mix.round, votes |-> mix.currentVotes,
                                          shuffledVotes |-> shuffleResult.shuffledVotes]),
                    !.result = IF last
                               THEN [shuffledVotes |-> shuffleResult.shuffledVotes,
                                     proofs |-> proofs, mixNodes |-> 0,
                                     rounds |-> shuffleRounds]
                               ELSE NULL]
  /\ UNCHANGED <<engineVars, heVars, ss, zkVars, requests, storeVars>>

\* the shuffle is followed within one tick of the clock
NextMix ==
  \/ GenerateKeys
  \/ GenerateKeysFails
  \/ ShuffleVotes
  \/ PerformShuffle

SpecMix == InitServices /\ [][NextMix]_vars

\* the positions of list whose ciphertext decrypts to m under the private key
DecryptingTo(list, m) ==
  {i \in 1..Len(list) : decrypt(list[i].ciphertext, privateKey) = Ok(m)}

\* C11 (shuffle permutation): the ciphertexts shuffleVotes returns decrypt,
\* and the multiset of their plaintexts is that of the plaintexts of the input.
ShufflePermutation ==
  IF MixIdle /\ mix # NULL /\ ValidKeyPair
  THEN /\ Len(mix.result.shuffledVotes) = Len(mix.input)
       /\ \A i \in 1..Len(mix.result.shuffledVotes) :
            decrypt(mix.result.shuffledVotes[i].ciphertext, privateKey).ok
       /\ \A m \in 0..(privateKey.n - 1) :
            Cardinality(DecryptingTo(mix.result.shuffledVotes, m))
              = Cardinality(DecryptingTo(mix.input, m))
  ELSE TRUE

(***************************************************************************)
(* Key generation requests racing for the elections of one controller.     *)
(***************************************************************************)

\* most generateElectionKeys requests in flight together, and their elections
MaxConcurrentKeyRequests == 2
KeyElections == {1, 2}

NextKeys ==
  \/ ReceiveGenerateElectionKeys(MaxConcurrentKeyRequests, KeyElections)
  \/ \E i \in Rids : GkExistingKeys(i)
  \/ \E i \in Rids : GkGenerateKeys(i)
  \/ \E i \in Rids : GkInsertKey(i)
  \/ \E i \in Rids : GkAuditLog(i)

SpecKeys == InitServices /\ [][NextKeys]_vars

\* the conflict answer of generateElectionKeys
KeysAlreadyExist ==
  [status |-> 409, message |-> "Keys already exist for this election"]

\* request i waits for its existence query while its election has an ACTIVE key
ChecksExistingElection(i) ==
  /\ At(i, "generateElectionKeys", "existingKeys")
  /\ ActiveKeys(requests[i].body.electionId) # {}

Failed(i) ==
  IF requests[i].response = NULL THEN FALSE ELSE requests[i].response.status = 500

\* the rows request i wrote that the store still holds
VotesWrittenBy(i) ==
  {v \in 1..Len(votesTable) : votesTable[v].vote_id = uuidv4(i, 1)}

ReceiptsWrittenBy(i) ==
  {v \in 1..Len(receiptsTable) : receiptsTable[v].receipt_id = uuidv4(i, 2)}

AuditsWrittenBy(i) ==
  {v \in 1..Len(auditTable) : auditTable[v].audit_id \in {uuidv4(i, 1), uuidv4(i, 3)}}

KeysWrittenBy(i) ==
  IF requests[i].handler = "generateElectionKeys" /\ Has(requests[i].local, "keyId")
  THEN {k \in 1..Len(keysTable) : keysTable[k].key_id = requests[i].local.keyId}
  ELSE {}

\* C13 (failure atomicity at the request boundary): a processVote or
\* generateElectionKeys request that reported failure left no vote, receipt,
\* key or audit record of its own in the store.
FailureAtomicity ==
  \A i \in Rids :
    Failed(i) => /\ requests[i].handler = "processVote"
                      => VotesWrittenBy(i) = {} /\ ReceiptsWrittenBy(i) = {}
                 /\ KeysWrittenBy(i) = {}
                 /\ AuditsWrittenBy(i) = {}

\* C14 (concurrent key generation): an election never has more than one
\* ACTIVE key record, and of the generateElectionKeys requests for one
\* election at most one is answered with success.
SingleActiveKey ==
  /\ \A e \in KeyElections : Cardinality(ActiveKeys(e)) <= 1
  /\ \A i, j \in RequestsOf("generateElectionKeys") :
       (requests[i].body.electionId = requests[j].body.electionId
          /\ Accepted(i) /\ Accepted(j)) => i = j

(***************************************************************************)
(* CryptoController.calculateTally, and requests of two elections served   *)
(* by the one controller and its one engine.                               *)
(***************************************************************************)

\* most calculateTally / processVote / generateElectionKeys requests followed
\* while a tally is computed
MaxTallyRequests == 1
MaxTallyVotes == 1
MaxTallyKeyRequests == 1

\* the roles calculateTally requests carry
UserRoles == {"Admin", "Voter"}

\* CryptoController.hasPrivateKeyPermission(userRole)
hasPrivateKeyPermission(userRole) == userRole \in {"Admin", "Manager", "Auditor"}

\* POST /tally arrives: calculateTally(req, res) up to its first await
ReceiveCalculateTally ==
  /\ Cardinality(RequestsOf("calculateTally")) < MaxTallyRequests
  /\ \E electionId \in KeyElections, userRole \in UserRoles :
       LET body == [electionId |-> electionId, userRole |-> userRole, userId |-> 1]
       IN requests' = Append(requests,
            IF hasPrivateKeyPermission(userRole)
            THEN [handler |-> "calculateTally", body |-> body,
                  pc |-> "loadElectionKeys", local |-> NULL, response |-> NULL]
            ELSE [handler |-> "calculateTally", body |-> body, pc |-> "done",
                  local |-> NULL,
                  response |-> [status |-> 403,
                                message |-> "Insufficient permissions"]])
  /\ UNCHANGED <<engineVars, heVars, ss, zkVars, storeVars, mix>>

\* calculateTally: the key query of loadElectionKeys(electionId, true, userRole)
\* returns; setPublicKey and setPrivateKeyShares load the row into the engine
CtLoadElectionKeys(i) ==
  /\ At(i, "calculateTally", "loadElectionKeys")
  /\ LET body == requests[i].body
     IN IF ActiveKeys(body.electionId) = {}
        THEN /\ Responds(i, [status |-> 400, message |-> "Election keys not found"])
             /\ UNCHANGED <<publicKey, privateKey, privateKeyShares, thresholdParams>>
        ELSE \E k \in ActiveKeys(body.electionId) :
               LET pk == setPublicKey(keysTable[k].public_key)
                   sh == setPrivateKeyShares(keysTable[k].private_key_shares,
                           [privateKey |-> privateKey,
                            thresholdParams |-> thresholdParams])
               IN IF ~pk.ok
                  THEN /\ Responds(i, [status |-> 500, error |-> pk.err])
                       /\ UNCHANGED <<publicKey, privateKey, privateKeyShares,
                                      thresholdParams>>
                  ELSE IF ~sh.ok
                  THEN /\ publicKey' = pk.val
                       /\ Responds(i, [status |-> 500, error |-> sh.err])
                       /\ UNCHANGED <<privateKey, privateKeyShares, thresholdParams>>
                  ELSE /\ publicKey' = pk.val
                       /\ privateKey' = sh.val.privateKey
                       /\ privateKeyShares' = sh.val.privateKeyShares
                       /\ thresholdParams' = sh.val.thresholdParams
                       /\ requests' = [requests EXCEPT ![i].pc = "findByElection",
                                         ![i].local = [keyData |-> keysTable[k]]]
  /\ UNCHANGED <<keygen, heVars, ss, zkVars, storeVars, mix>>

\* the rows EncryptedVote.findByElection(electionId) returns, latest first
RECURSIVE findByElection(_, _)
findByElection(electionId, v) ==
  IF v = 0 THEN <<>>
  ELSE (IF votesTable[v].election_id = electionId THEN <<votesTable[v]>> ELSE <<>>)
         \o findByElection(electionId, v - 1)

\* calculateTally: EncryptedVote.findByElection returns; addEncrypted and
\* thresholdDecrypt run on the engine as it is now, and the audit entry is
\* handed to AuditLog.create
CtFindByElection(i) ==
  /\ At(i, "calculateTally", "findByElection")
  /\ \/ LET keyData == requests[i].local.keyData
            encryptedVotes == findByElection(requests[i].body.electionId,
                                             Len(votesTable))
            homomorphicVotes ==
              [v \in 1..Len(encryptedVotes) |->
                 [type |-> "object",
                  ciphertext |-> encryptedVotes[v].homomorphic_data.ciphertext,
                  voteId |-> encryptedVotes[v].vote_id]]
            homomorphicSum == addEncrypted(homomorphicVotes, publicKey)
            totalVotes == thresholdDecrypt(homomorphicSum.val, keyData.threshold_k,
                                           privateKeyShares, privateKey)
        IN IF Len(encryptedVotes) = 0
           THEN Responds(i, [status |-> 404,
                             message |-> "No votes found for election"])
           ELSE IF ~homomorphicSum.ok
           THEN Responds(i, [status |-> 500, error |-> homomorphicSum.err])
           ELSE IF ~totalVotes.ok
           THEN Responds(i, [status |-> 500,
                             message |-> "Failed to decrypt tally",
                             error |-> totalVotes.err])
           ELSE requests' = [requests EXCEPT ![i].pc = "auditLog",
                  ![i].local = [keyData |-> keyData,
                                encryptedVotesCount |-> Len(encryptedVotes),
                                publicKey |-> publicKey,
                                privateKeyShares |-> privateKeyShares,
                                homomorphicSum |-> homomorphicSum.val,
                                totalVotes |-> totalVotes.val]]
     \/ DbFails(i)
  /\ UNCHANGED <<engineVars, heVars, ss, zkVars, storeVars, mix>>

\* calculateTally: AuditLog.create returns and the response is sent
CtAuditLog(i) ==
  /\ At(i, "calculateTally", "auditLog")
  /\ \/ /\ auditTable' = Append(auditTable,
              [audit_id |-> uuidv4(i, 1),
               election_id |-> requests[i].body.electionId,
               user_id |-> requests[i].body.userId,
               action_type |-> "TALLY_CALCULATED",
               action_data |-> [totalVotes |-> requests[i].local.totalVotes],
               hash_chain |-> calculateHashChain(<<"t", "a", "l", "l", "y">>,
                                requests[i].body.electionId, now),
               previous_hash |-> "previous_hash_placeholder"])
        /\ Responds(i, [status |-> 200,
                        data |-> [electionId |-> requests[i].body.electionId,
                                  totalVotes |-> requests[i].local.totalVotes,
                                  encryptedVotesCount |->
                                    requests[i].local.encryptedVotesCount,
                                  homomorphicSum |-> requests[i].local.homomorphicSum,
                                  publicKey |->
                                    serializePublicKey(publicKey)]])
     \/ /\ DbFails(i)
        /\ UNCHANGED auditTable
  /\ UNCHANGED <<engineVars, heVars, ss, zkVars, keysTable, votesTable, receiptsTable, mix>>

\* most requests the controller serves at a time while a tally is computed
MaxInFlight == 2

\* another request can be taken on
Admits ==
  Cardinality({i \in Rids : requests[i].response = NULL}) < MaxInFlight

NextTally ==
  \/ Admits /\ ReceiveGenerateElectionKeys(MaxTallyKeyRequests, KeyElections)
  \/ Admits /\ ReceiveProcessVote(MaxTallyVotes, KeyElections, {1})
  \/ Admits /\ ReceiveCalculateTally
  \/ \E i \in Rids : GkExistingKeys(i)
  \/ \E i \in Rids : GkGenerateKeys(i)
  \/ \E i \in Rids : GkInsertKey(i)
  \/ \E i \in Rids : GkAuditLog(i)
  \/ \E i \in Rids : PvLoadElectionKeys(i)
  \/ \E i \in Rids : PvCreateVote(i)
  \/ \E i \in Rids : PvCreateReceipt(i)
  \/ \E i \in Rids : PvAuditLog(i)
  \/ \E i \in Rids : CtLoadElectionKeys(i)
  \/ \E i \in Rids : CtFindByElection(i)
  \/ \E i \in Rids : CtAuditLog(i)

\* the keys generateElectionKeys can have stored
StorableKeys ==
  {out.val : out \in {o \in {generateKeys(pq[1], pq[2],
                                 [j \in 1..(thresholdK - 1) |->
                                    generateRandomBigInt(raws[j], pq[1] * pq[2])]) :
                               pq \in GeneratablePrimes(keySize \div 2)
                                        \X GeneratablePrimes(keySize \div 2),
                               raws \in SeqsOf(KeyShareDraws, thresholdK - 1)} :
                          o.ok}}

\* the vote records processVote can have stored for body under the key, at
\* time 0 of an earlier run of the service (its identifiers carry the number 0)
StorableVotes(body, key) ==
  {out.val :
     out \in {o \in {prepareVote(0, body, key, e.val, draws, r, 0) :
                       e \in {x \in encryptResults(body.vote, key, VoteDraws) : x.ok},
                       draws \in SeqsOf(VoteSigmaDraws, Len(body.candidates)),
                       r \in NullifierDraws} :
               o.ok}}

\* a controller constructed over the store an earlier run of the service
\* left: election 1 has its key and one vote, election 2 has nothing yet
InitTally ==
  /\ NoEngine
  /\ NoCalls
  /\ ss = NULL
  /\ now = 0
  /\ bundle = NULL
  /\ verdict = NULL
  /\ nullifierCalls = <<>>
  /\ requests = <<>>
  /\ mix = NULL
  /\ LET keyBody == [electionId |-> 1, userId |-> 1]
         voteBody == [electionId |-> 1, userId |-> 2, vote |-> 1,
                      candidates |-> VoteCandidates]
     IN \E keys \in StorableKeys :
          \E voteData \in StorableVotes(voteBody, keys.publicKey) :
            \E raw \in ReceiptDraws :
              /\ keysTable = <<insertedKey(1, keyBody, keys)>>
              /\ votesTable = <<voteData>>
              /\ receiptsTable =
                   <<insertedReceipt(voteData, receiptOf(0, voteData, raw, 0))>>
              /\ auditTable = <<keysGenerated(0, keyBody, 1, 0),
                                voteCast(0, voteData, 0)>>

SpecTally == InitTally /\ [][NextTally]_vars

\* the key material a stored key row spells
StoredPublicKey(row) == setPublicKey(row.public_key).val

StoredKeyShares(row) ==
  setPrivateKeyShares(row.private_key_shares,
                      [privateKey |-> NULL, thresholdParams |-> NULL]).val.privateKeyShares

\* C15 (no interference across elections): a tally that was computed used the
\* public key and the key shares stored for its own election, and a vote that
\* was stored was encrypted under a public key stored for its own election.
ElectionIsolation ==
  /\ \A i \in RequestsOf("calculateTally") :
       Has(requests[i].local, "totalVotes")
         => \E k \in ActiveKeys(requests[i].body.electionId) :
              /\ requests[i].local.publicKey = StoredPublicKey(keysTable[k])
              /\ requests[i].local.privateKeyShares = StoredKeyShares(keysTable[k])
  /\ \A v \in 1..Len(votesTable) :
       \E k \in ActiveKeys(votesTable[v].election_id) :
         votesTable[v].homomorphic_data.publicKey = keysTable[k].public_key

(***************************************************************************)
(* What the store tells a reader about the randomness of a stored vote.    *)
(***************************************************************************)

\* the text opens the ciphertext of the row: under the row's public key it is
\* the randomness that encrypts some candidate vote to the stored ciphertext
OpensCiphertext(row, text) ==
  LET r == ToBigInt(text)
      key == setPublicKey(row.homomorphic_data.publicKey)
  IN IF r.ok /\ key.ok
     THEN \E m \in CandidateVotes :
            row.homomorphic_data.ciphertext = ToStr(encryptValue(m, r.val, key.val))
     ELSE FALSE

\* C16 (randomness not persisted): no stored vote record carries, next to its
\* ciphertext, a value that opens that ciphertext.
RandomnessNotPersisted ==
  \A v \in 1..Len(votesTable) :
    \A f \in (DOMAIN votesTable[v].encrypted_vote) \ {"ciphertext"} :
      ~OpensCiphertext(votesTable[v], votesTable[v].encrypted_vote[f])

(***************************************************************************)
(* The OR proof: what a bundle shows, and what the verifier checks.        *)
(***************************************************************************)

\* the prover's vote is one of the candidates' indices
VoteInRange == bundle.vote \in 0..(Len(bundle.candidates) - 1)

\* the draws of the random bytes under which generateProof returned the bundle
BundleDraws ==
  {draws \in SeqsOf(SigmaDraws, Len(bundle.candidates)) :
     generateProof(bundle.vote, bundle.candidates, bundle.commitment.val, draws,
                   bundle.proof.val.timestamp) = bundle.proof}

\* C17 (zero-knowledge of the OR proof): the bundle returned for the true
\* index t is the bundle the same candidate list, random draws and time give
\* for every other true index t', so no field of it tells the vote.
ZeroKnowledge ==
  (HasBundle /\ VoteInRange)
    => \A draws \in BundleDraws :
         \A t \in 0..(Len(bundle.candidates) - 1) :
           LET commitment == generateCommitment(t, bundle.randomness)
           IN commitment.ok
                => generateProof(t, bundle.candidates, commitment.val, draws,
                                 bundle.proof.val.timestamp) = bundle.proof

\* g^z = a * C^c: the verification equation of a simulated branch for the
\* commitment C
SatisfiesOrRelation(sigmaProof, commitment) ==
  LET a == PointFromHex(sigmaProof.a)
      C == PointFromHex(commitment.commitment)
      c == HexToBigInt(sigmaProof.c)
      z == HexToBigInt(sigmaProof.z)
  IN IF ~a.ok \/ ~C.ok \/ ~c.ok \/ ~z.ok THEN FALSE
     ELSE LET gz == PointMultiply(PointBASE, z.val % curveOrder)
              Cc == PointMultiply(C.val, c.val % curveOrder)
          IN IF ~gz.ok \/ ~Cc.ok THEN FALSE
             ELSE gz.val = PointAdd(a.val, Cc.val)

\* the simulated branches of the bundle that fail the equation for commitment
FailingSimulated(commitment) ==
  {i \in 1..Len(bundle.proof.val.proofs) :
     /\ bundle.proof.val.proofs[i].type = "simulated"
     /\ ~SatisfiesOrRelation(bundle.proof.val.proofs[i], commitment)}

\* C18 (simulated branches are checked): a bundle holding a simulated branch
\* whose (a, c, z) fails the verification equation for the commitment is
\* rejected with the invalid-sigma-proof reason.
SimulatedBranchChecked ==
  IF verdict = NULL THEN TRUE
  ELSE FailingSimulated(verdict.commitment) # {}
         => /\ ~verdict.result.isValid
            /\ verdict.result.reason = "Invalid sigma proof for candidate"

\* the branches of the bundle tagged real
RealBranches ==
  {i \in 1..Len(bundle.proof.val.proofs) : bundle.proof.val.proofs[i].type = "real"}

\* C19 (one real branch): the bundle generateProof returns holds one
\* SigmaProof per candidate in the order 0..m-1, and exactly one is tagged
\* real: the one whose candidateIndex is the vote.
OneRealBranch ==
  HasBundle
    => /\ Len(bundle.proof.val.proofs) = Len(bundle.candidates)
       /\ \A i \in 1..Len(bundle.proof.val.proofs) :
            bundle.proof.val.proofs[i].candidateIndex = i - 1
       /\ RealBranches = {bundle.vote + 1}

(***************************************************************************)
(* The verifier handed bundles that were altered on their way.             *)
(***************************************************************************)

\* texts an altered field holds: a z that is a scalar but not the nonce of any
\* draw, an a that spells no point, a challenge that is no digest of the a's
ForgedZ == ToHexStr(2)
ForgedA == <<"0", "2", "z", "z">>
ForgedChallenge == <<"#">>

\* the proof with its last branch dropped (dropLast), the z of branch badZ
\* and the a of branch badA replaced (0: none), and the challenge replaced
\* (forgeChallenge)
Altered(proof, dropLast, badZ, badA, forgeChallenge) ==
  LET kept == IF dropLast THEN Len(proof.proofs) - 1 ELSE Len(proof.proofs)
  IN [proofs |-> [i \in 1..kept |->
                    [proof.proofs[i] EXCEPT
                       !.z = IF i = badZ THEN ForgedZ ELSE @,
                       !.a = IF i = badA THEN ForgedA ELSE @]],
      challenge |-> IF forgeChallenge THEN ForgedChallenge ELSE proof.challenge,
      timestamp |-> proof.timestamp]

\* the bundle is altered before the verifier receives it
AlterProof ==
  /\ HasBundle
  /\ verdict = NULL
  /\ ~Has(bundle, "altered")
  /\ \E dropLast \in BOOLEAN, forgeChallenge \in BOOLEAN,
        badZ \in 0..Len(bundle.candidates), badA \in 0..Len(bundle.candidates) :
       bundle' = Merge(bundle,
                   [proof |-> Ok(Altered(bundle.proof.val, dropLast, badZ, badA,
                                         forgeChallenge)),
                    altered |-> TRUE])
  /\ UNCHANGED <<engineVars, heVars, ss, now, verdict, nullifierCalls, requests,
                 storeVars, mix>>

NextVerify ==
  \/ bundle = NULL /\ GenerateProof
  \/ AlterProof
  \/ VerifyProof

SpecVerify == InitServices /\ [][NextVerify]_vars

\* the branch fails its check: it does not parse, or it is tagged real and
\* g^z is not a
BranchFails(sigmaProof) ==
  LET a == PointFromHex(sigmaProof.a)
      z == HexToBigInt(sigmaProof.z)
  IN IF ~a.ok \/ ~z.ok THEN TRUE
     ELSE IF sigmaProof.type = "real"
     THEN (z.val % curveOrder) # a.val \/ z.val = 0 \/ z.val >= curveOrder
     ELSE ~HexToBigInt(sigmaProof.c).ok

\* the answer the order count, branches, challenge gives for the bundle
OrderedAnswer ==
  LET proofs == bundle.proof.val.proofs
      failing == {i \in 1..Len(proofs) : BranchFails(proofs[i])}
  IN IF Len(proofs) # Len(bundle.candidates)
     THEN [isValid |-> FALSE, reason |-> "Invalid proof count"]
     ELSE IF failing # {}
     THEN [isValid |-> FALSE, reason |-> "Invalid sigma proof for candidate",
           candidateIndex |->
             proofs[CHOOSE i \in failing : \A j \in failing : i <= j].candidateIndex]
     ELSE IF bundle.proof.val.challenge
               # sha256Hex(Join([i \in 1..Len(proofs) |-> proofs[i].a]))
     THEN [isValid |-> FALSE, reason |-> "Invalid challenge"]
     ELSE [isValid |-> TRUE]

\* C20 (failure reasons in a fixed order): verifyProof answers 'Invalid proof
\* count' when the branch count differs from the candidate count; otherwise
\* 'Invalid sigma proof for candidate i' for the first branch that fails its
\* check; otherwise 'Invalid challenge' when the embedded challenge is not the
\* hash of the concatenated first messages; and isValid = true only when none
\* of the three applies.
FailureReasonOrder ==
  IF verdict = NULL THEN TRUE ELSE verdict.result = OrderedAnswer

\* a bundle with a failing branch and a forged challenge was answered with
\* the branch's reason
FailureReasonOrderWitness ==
  IF verdict = NULL THEN FALSE
  ELSE /\ Has(bundle, "altered")
       /\ Len(bundle.proof.val.proofs) = Len(bundle.candidates)
       /\ bundle.proof.val.challenge = ForgedChallenge
       /\ verdict.result.isValid = FALSE
       /\ verdict.result.reason = "Invalid sigma proof for candidate"
       /\ verdict.result.candidateIndex = 1

(***************************************************************************)
(* A nullifier handed back to the service that derived it.                 *)
(***************************************************************************)

\* C21 (nullifier verifies): the nullifier generateNullifier returned for a
\* voter, an election and a randomness, at whatever time, is answered true by
\* verifyNullifierProof for that voter and election.
NullifierVerifies ==
  \A i \in 1..Len(nullifierCalls) :
    nullifierCalls[i].result.ok
      => verifyNullifierProof(nullifierCalls[i].result.val,
                              nullifierCalls[i].userId, nullifierCalls[i].electionId)

(***************************************************************************)
(* The randomness encrypt returns, and the end of its random loop.         *)
(***************************************************************************)

\* C22 (randomness invariant of encrypt): whenever encrypt returned
\* {ciphertext, randomness} under a key, that key has n > 100, the returned r
\* satisfies 2 <= r <= n - 1 and gcd(r, n) = 1, and the ciphertext is
\* g^vote * r^n mod n^2 for that r.
RandomnessInvariant ==
  \A i \in 1..Len(ballots) :
    LET key == ballots[i].key
        r == ToBigInt(ballots[i].randomness)
    IN /\ key.n > 100
       /\ r.ok
       /\ 2 <= r.val /\ r.val <= key.n - 1
       /\ AbsGcd(r.val, key.n) = 1
       /\ ballots[i].ciphertext
            = ToStr(MulMod(ModPow(key.g, ballots[i].vote, key.nsq),
                           ModPow(r.val, key.n, key.nsq), key.nsq))

\* encrypt returned a ciphertext after its loop rejected a draw that shares
\* a factor with n
RandomnessInvariantWitness ==
  IF enc = NULL THEN FALSE
  ELSE /\ enc.status = "done"
       /\ enc.draws = 2
       /\ enc.result.ok
       /\ Len(ballots) >= 1
       /\ ballots[Len(ballots)].ciphertext = enc.result.val.ciphertext

\* encrypt followed through its whole random loop, one call at a time
NextRetry ==
  \/ GenerateKeys
  \/ Len(ballots) = 0 /\ EncryptCall
  \/ EncryptStep(maxAttempts)

SpecRetry == InitEngine /\ [][NextRetry]_vars

\* the value the loop of encrypt makes of the random bytes
DrawnR(raw, n) == (raw % (n - 2)) + 2

\* C23 (randomness failure only without a coprime draw): at every iteration
\* the random loop of encrypt reaches, the last permitted one included, a
\* draw r with gcd(r, n) = 1 makes encrypt return a ciphertext using that r.
CoprimeDrawReturns ==
  IF enc = NULL THEN TRUE
  ELSE enc.status = "loop"
         => \A raw \in RandomDraws :
              AbsGcd(DrawnR(raw, enc.key.n), enc.key.n) = 1
                => LET it == encryptIteration(enc.vote, enc.key, enc.attempts, raw)
                   IN /\ ~it.loop
                      /\ it.result.ok
                      /\ it.result.val.randomness = ToStr(DrawnR(raw, enc.key.n))

(***************************************************************************)
(* addEncrypted handed elements of every shape.                            *)
(***************************************************************************)

\* most elements of a list handed to addEncrypted in this scenario
MaxElements == 2

\* ciphertext texts: a value inside [0, n^2), the values n^2 and -1 outside
\* it, and a text that is no number
ElementTexts(key) == {ToStr(5), ToStr(key.nsq), <<"-", "1">>, <<"x">>}

\* the elements: a raw ciphertext, {ciphertext}, {homomorphic_data:
\* {ciphertext}} and an object with neither property
Elements(key) ==
  {[type |-> "string", text |-> t] : t \in ElementTexts(key)}
    \cup {[type |-> "object", ciphertext |-> t] : t \in ElementTexts(key)}
    \cup {[type |-> "object", homomorphic_data |-> [ciphertext |-> t]] :
            t \in ElementTexts(key)}
    \cup {[type |-> "object", voteId |-> <<"1">>]}

\* addEncrypted(encryptedVotes) for a list of such elements
AddElements ==
  /\ publicKey # NULL
  /\ tally = NULL
  /\ \E len \in 1..MaxElements :
       \E votes \in SeqsOf(Elements(publicKey), len) :
         tally' = [votes |-> votes, key |-> publicKey,
                   result |-> addEncrypted(votes, publicKey)]
  /\ UNCHANGED <<engineVars, enc, ballots, dec, ss, serviceVars>>

NextAdd == GenerateKeys \/ AddElements

SpecAdd == InitEngine /\ [][NextAdd]_vars

\* the element is of a recognized shape and its ciphertext is the numeral of
\* an integer in [0, n^2)
Normalizable(vote, nsq) ==
  LET text == ciphertextOf(vote)
  IN IF ~text.ok THEN FALSE
     ELSE LET c == ToBigInt(text.val)
          IN IF ~c.ok THEN FALSE ELSE 0 <= c.val /\ c.val < nsq

\* C24 (addEncrypted normalizes every element): a list holding an element
\* that is not a ciphertext in [0, n^2) of a recognized shape makes
\* addEncrypted fail with the invalid-vote-structure error; every other list
\* is summed.
AddNormalizes ==
  IF tally = NULL THEN TRUE
  ELSE IF \A i \in 1..Len(tally.votes) : Normalizable(tally.votes[i], tally.key.nsq)
       THEN tally.result.ok
       ELSE tally.result = Err("Invalid vote structure for homomorphic addition")

(***************************************************************************)
(* One shuffle round and the verification of its proof, as functions of    *)
(* their inputs.                                                           *)
(***************************************************************************)

\* longest list handed to performShuffle in this scenario
MaxShuffleLength == 3

\* the list of length len: votes with the ciphertexts "11", "12", ...
VotesOfLength(len) == [i \in 1..len |-> [ciphertext |-> ToStr(10 + i)]]

\* performShuffle(votes, round) for a list of every length from 0, every
\* round and every sequence of random draws
PerformShuffleCall ==
  /\ mix = NULL
  /\ \E len \in 0..MaxShuffleLength, round \in 0..(shuffleRounds - 1) :
       \E us \in [1..(len - 1) -> MathRandoms], raws \in [1..len -> MixDraws] :
         mix' = [status |-> "shuffled", votes |-> VotesOfLength(len),
                 round |-> round, raws |-> raws,
                 result |-> performShuffle(VotesOfLength(len), round, us, raws, now),
                 verification |-> NULL]
  /\ UNCHANGED <<engineVars, heVars, ss, zkVars, requests, storeVars>>

\* a commitment no shuffle produced
ForgedCommitment == <<"0">>

\* verifyShuffleProof(proof, before, after) for the proof of the round or one
\* with another commitment, and the output of the round or that output less
\* its last vote
VerifyShuffleProofCall ==
  /\ mix # NULL
  /\ mix.verification = NULL
  /\ \E forged \in BOOLEAN, dropLast \in BOOLEAN :
       LET proof == IF forged
                    THEN [mix.result.proof EXCEPT !.commitment = ForgedCommitment]
                    ELSE mix.result.proof
           after == IF dropLast /\ Len(mix.result.shuffledVotes) > 0
                    THEN SubSeq(mix.result.shuffledVotes, 1,
                                Len(mix.result.shuffledVotes) - 1)
                    ELSE mix.result.shuffledVotes
       IN mix' = [mix EXCEPT !.status = "verified",
                    !.verification = [proof |-> proof, before |-> mix.votes,
                                      after |-> after,
                                      answer |-> verifyShuffleProof(proof, mix.votes, after)]]
  /\ UNCHANGED <<engineVars, heVars, ss, zkVars, requests, storeVars>>

NextShuffle == PerformShuffleCall \/ VerifyShuffleProofCall

SpecShuffle == InitServices /\ [][NextShuffle]_vars

\* C25 (shuffle proof verification): verifyShuffleProof answers isValid = true
\* only for lists of equal length and a proof whose commitment is the one
\* recomputed from the lists.
ShuffleProofChecked ==
  IF mix = NULL THEN TRUE
  ELSE IF mix.verification = NULL THEN TRUE
  ELSE mix.verification.answer.isValid
         => /\ Len(mix.verification.before) = Len(mix.verification.after)
            /\ mix.verification.proof.commitment
                 = expectedCommitment(mix.verification.before, mix.verification.after)

\* C26 (permutation and shuffle): the permutation of a round holds each index
\* of 0..length-1 once, and the output holds at position i the re-randomized
\* input element at position permutation[i].
ShuffleIsPermutation ==
  IF mix = NULL THEN TRUE
  ELSE LET length == Len(mix.votes)
           permutation == mix.result.permutation
           shuffledVotes == mix.result.shuffledVotes
       IN /\ Len(permutation) = length
          /\ \A k \in 0..(length - 1) :
               Cardinality({i \in 1..length : permutation[i] = k}) = 1
          /\ Len(shuffledVotes) = length
          /\ \A i \in 1..length :
               shuffledVotes[i] = rerandomize(mix.votes[permutation[i] + 1],
                                              mix.raws[i], now)

\* a list of three votes has been shuffled out of its order
ShuffleIsPermutationWitness ==
  /\ mix # NULL
  /\ Len(mix.votes) = 3
  /\ mix.result.permutation = <<2, 0, 1>>
  /\ mix.result.shuffledVotes[1].ciphertext
       = multiplyWithRandomness(mix.votes[3].ciphertext, ToHexStr(mix.raws[1]))

(***************************************************************************)
(* The rounds of one shuffleVotes call.                                    *)
(***************************************************************************)

\* longest list handed to shuffleVotes in this scenario
MaxRoundVotes == 1

\* the ciphertexts of the votes handed to shuffleVotes: "11", "12", ..., "18"
RoundCiphertexts == {ToStr(10 + i) : i \in 1..8}

\* the lists of votes handed to shuffleVotes
RoundLists ==
  UNION {SeqsOf({[ciphertext |-> c] : c \in RoundCiphertexts}, len) :
           len \in 0..MaxRoundVotes}

NextRounds ==
  \/ ShuffleVotesOf(RoundLists)
  \/ PerformShuffle

SpecRounds == InitServices /\ [][NextRounds]_vars

\* C27 (shuffle rounds): shuffleVotes runs the rounds 0, 1, 2, ... up to
\* shuffleRounds, each handed the output of the one before it (the first the
\* input); it returns the output of the last round and one proof per round,
\* proofs[r] carrying round r and nodeId 'mix-node-r'.
ShuffleRounds ==
  IF mix = NULL THEN TRUE
  ELSE /\ mix.round <= shuffleRounds
       /\ Len(mix.performed) = mix.round
       /\ Len(mix.proofs) = mix.round
       /\ \A x \in 1..Len(mix.performed) :
            /\ mix.performed[x].round = x - 1
            /\ mix.performed[x].votes
                 = IF x = 1 THEN mix.input ELSE mix.performed[x - 1].shuffledVotes
            /\ mix.proofs[x].round = x - 1
            /\ mix.proofs[x].nodeId
                 = <<"m", "i", "x", "-", "n", "o", "d", "e", "-">> \o ToStr(x - 1)
       /\ (mix.result = NULL) = (mix.round < shuffleRounds)
       /\ (mix.result # NULL
             => /\ mix.round = shuffleRounds
                /\ mix.result.rounds = shuffleRounds
                /\ mix.result.shuffledVotes = mix.performed[shuffleRounds].shuffledVotes
                /\ mix.result.proofs = mix.proofs)

\* a call for a list of votes has returned after rounds that each changed it
ShuffleRoundsWitness ==
  /\ mix # NULL
  /\ mix.result # NULL
  /\ Len(mix.input) = MaxRoundVotes
  /\ Len(mix.result.proofs) = 3
  /\ \A x \in 1..Len(mix.performed) :
       mix.performed[x].shuffledVotes # mix.performed[x].votes
  /\ mix.result.shuffledVotes[1].ciphertext # mix.performed[2].shuffledVotes[1].ciphertext

(***************************************************************************)
(* What fewer than k shares of generateSecretShares show of the secret.    *)
(***************************************************************************)

\* most shares generateSecretShares is asked for in this scenario
MaxViewShares == 3

\* moduli of one byte: a prime, a product of small primes, and a product of
\* primes larger than every share id
ViewModuli == {5, 6, 25}

\* the values the randomBytes(byteLength) of generateRandomBigInt spell for
\* a modulus of at most eight bits, where byteLength = 1
RandomBytes == 0..255

\* the bytes drawn for the coefficients of the shares an observer sees
ViewDraws == {1, 255}

\* the values of the shares with the ids of `ids`, in ascending id order
ViewOf(shares, ids) ==
  LET picked == Pick(shares, ids, 1)
  IN [i \in 1..Len(picked) |-> picked[i].value]

\* a secret is to be shared to n holders with a threshold k up to the
\* thresholdK of generateKeys, and an observer is to see the k-1 shares with
\* the ids of `ids`
InitViews ==
  /\ NoEngine
  /\ NoCalls
  /\ NoServices
  /\ \E modulus \in ViewModuli, n \in 1..MaxViewShares :
       \E secret \in SecretsOf(modulus), k \in 1..(IF n < thresholdK THEN n ELSE thresholdK) :
         \E ids \in {S \in SUBSET (1..n) : Cardinality(S) = k - 1} :
           ss = [phase |-> "input", secret |-> secret, n |-> n, k |-> k,
                 modulus |-> modulus, ids |-> ids, view |-> NULL]

\* generateSecretShares(secret, n, k, modulus), of which the observer sees
\* the shares of `ids`
ShareAndObserve ==
  /\ ss.phase = "input"
  /\ \E raws \in SeqsOf(ViewDraws, ss.k - 1) :
       LET randoms == [j \in 1..(ss.k - 1) |-> generateRandomBigInt(raws[j], ss.modulus)]
       IN ss' = [ss EXCEPT !.phase = "observed",
                   !.view = ViewOf(generateSecretShares(ss.secret, ss.n, ss.k,
                                                        ss.modulus, randoms),
                                   ss.ids)]
  /\ UNCHANGED <<engineVars, heVars, serviceVars>>

NextViews == ShareAndObserve

SpecViews == InitViews /\ [][NextViews]_vars

\* the values generateRandomBigInt(max) can return
RandomBigInts(max) == {generateRandomBigInt(raw, max) : raw \in RandomBytes}

\* the view of the shares of `ids` can arise for the secret under some
\* coefficients generateRandomBigInt can return
CanArise(view, secret, n, k, modulus, ids) ==
  \E randoms \in SeqsOf(RandomBigInts(modulus), k - 1) :
    view = ViewOf(generateSecretShares(secret, n, k, modulus, randoms), ids)

\* the observed view can arise for every secret in [0, modulus)
ViewFitsEverySecret ==
  \A secret \in 0..(ss.modulus - 1) :
    CanArise(ss.view, secret, ss.n, ss.k, ss.modulus, ss.ids)

\* C28 as stated (fewer than k shares reveal nothing): every k-1 share
\* values that arise for one secret can arise, for the same ids, for every
\* other secret in [0, modulus).
ViewsIndependent ==
  ss.phase = "observed" => ViewFitsEverySecret

\* C28 (fewer than k shares reveal nothing), for a modulus coprime to every
\* share id 1..n: every k-1 share values that arise for one secret can arise,
\* for the same ids, for every other secret in [0, modulus).
ViewsIndependentCoprime ==
  (ss.phase = "observed" /\ \A x \in 1..ss.n : AbsGcd(x, ss.modulus) = 1)
    => ViewFitsEverySecret

\* two of three shares of a nonzero secret are observed under a composite
\* modulus coprime to the ids
ViewsIndependentWitness ==
  /\ ss.phase = "observed"
  /\ ss.modulus = 25
  /\ ss.k = 3
  /\ ss.ids = {2, 3}
  /\ ss.secret = 24
  /\ ss.view[1] # ss.view[2]

\* decrypt returns v for the ciphertexts encrypt makes of v under the key pair
DecryptsEncrypted(v, public, private) ==
  \A e \in encryptResults(v, public, RandomDraws) :
    e.ok => decrypt(e.val.ciphertext, private) = Ok(v)

\* C29 (generated keys work): the key pair generateKeys assigns has n = p*q
\* for two distinct primes, g = n+1, nsq = n^2, lambda = lcm(p-1, q-1) and
\* mu = lambda^-1 mod n, and decrypt(encrypt(v)) = v for every v in [0, n).
GeneratedKeysWork ==
  IF keygen = NULL THEN TRUE
  ELSE keygen.ok
         => LET p == keygen.val.p
                q == keygen.val.q
            IN /\ p # q /\ isProbablyPrime(p) /\ isProbablyPrime(q)
               /\ publicKey = [n |-> p * q, g |-> p * q + 1, nsq |-> p * q * p * q]
               /\ privateKey.lambda = lcm(p - 1, q - 1)
               /\ MulMod(privateKey.mu, privateKey.lambda, p * q) = 1
               /\ \A v \in 0..(p * q - 1) : DecryptsEncrypted(v, publicKey, privateKey)

(***************************************************************************)
(* generateKeys with the loop of generatePrime followed draw by draw.      *)
(***************************************************************************)

\* maxAttempts of generatePrime
primeMaxAttempts == 2000

\* most generateKeys calls made on one engine in this scenario
MaxKeygenCalls == 2

\* values the random byte of generatePrime spells in this scenario:
\* candidates 17, 19, 21 and 23
PrimeLoopDraws == {1, 3, 5, 7}

\* generatePrime without the quick divisibility tests
generatePrimeIterationUnscreened(bits, attempts, raw) ==
  LET candidate == PrimeCandidate(raw, bits)
  IN IF isProbablyPrime(candidate)
     THEN [loop |-> FALSE, attempts |-> attempts + 1, result |-> Ok(candidate)]
     ELSE IF attempts + 1 < primeMaxAttempts
          THEN [loop |-> TRUE, attempts |-> attempts + 1, result |-> NULL]
          ELSE [loop |-> FALSE, attempts |-> attempts + 1,
                result |-> Err("Failed to generate prime")]

\* one iteration of the loop of generatePrime(bits) entered with attempts
\* below maxAttempts, raw being the value its random bytes spell; when the
\* candidate is discarded the loop condition is tested again, and the throw
\* follows when it fails
generatePrimeIteration(bits, attempts, raw) ==
  LET candidate == PrimeCandidate(raw, bits)
  IN IF ~DivisibleBySmallPrime(candidate) /\ isProbablyPrime(candidate)
     THEN [loop |-> FALSE, attempts |-> attempts + 1, result |-> Ok(candidate)]
     ELSE IF attempts + 1 < primeMaxAttempts
          THEN [loop |-> TRUE, attempts |-> attempts + 1, result |-> NULL]
          ELSE [loop |-> FALSE, attempts |-> attempts + 1,
                result |-> Err("Failed to generate prime")]

\* the four fields of the engine generateKeys assigns
EngineKeys == <<publicKey, privateKey, privateKeyShares, thresholdParams>>

\* generateKeys() is called and enters generatePrime for p
GenerateKeysCall ==
  /\ IF keygen = NULL THEN TRUE
     ELSE keygen.status \in {"done", "failed"} /\ keygen.calls < MaxKeygenCalls
  /\ keygen' = [status |-> "p", calls |-> IF keygen = NULL THEN 1 ELSE keygen.calls + 1,
                bits |-> keySize \div 2, attempts |-> 0, p |-> NULL, q |-> NULL,
                before |-> EngineKeys, error |-> NULL]
  /\ UNCHANGED <<publicKey, privateKey, privateKeyShares, thresholdParams,
                 heVars, ss, serviceVars>>

\* one iteration of generatePrime inside generateKeys: the loop goes on, or
\* it throws and generateKeys with it, or p is returned and generatePrime is
\* entered for q, or q is returned and generateKeys runs to its end
GeneratePrimeStep ==
  /\ keygen # NULL
  /\ keygen.status \in {"p", "q"}
  /\ \E raw \in PrimeLoopDraws :
       LET it == generatePrimeIteration(keygen.bits, keygen.attempts, raw)
       IN IF it.loop
          THEN /\ keygen' = [keygen EXCEPT !.attempts = it.attempts]
               /\ UNCHANGED <<publicKey, privateKey, privateKeyShares, thresholdParams>>
          ELSE IF ~it.result.ok
          THEN /\ keygen' = [keygen EXCEPT !.status = "failed",
                               !.attempts = it.attempts, !.error = it.result.err]
               /\ UNCHANGED <<publicKey, privateKey, privateKeyShares, thresholdParams>>
          ELSE IF keygen.status = "p"
          THEN /\ keygen' = [keygen EXCEPT !.status = "q", !.attempts = 0,
                               !.p = it.result]
               /\ UNCHANGED <<publicKey, privateKey, privateKeyShares, thresholdParams>>
          ELSE \E raws \in SeqsOf(KeyShareDraws, thresholdK - 1) :
                 LET p == keygen.p.val
                     q == it.result.val
                     randoms == [j \in 1..(thresholdK - 1) |->
                                   generateRandomBigInt(raws[j], p * q)]
                     out == generateKeys(p, q, randoms)
                 IN IF out.ok
                    THEN /\ publicKey' = out.val.publicKey
                         /\ privateKey' = out.val.privateKey
                         /\ privateKeyShares' = out.val.privateKeyShares
                         /\ thresholdParams' = out.val.thresholdParams
                         /\ keygen' = [keygen EXCEPT !.status = "done",
                                         !.attempts = it.attempts, !.q = it.result]
                    ELSE /\ keygen' = [keygen EXCEPT !.status = "failed",
                                         !.attempts = it.attempts, !.q = it.result,
                                         !.error = out.err]
                         /\ UNCHANGED <<publicKey, privateKey, privateKeyShares,
                                        thresholdParams>>
  /\ UNCHANGED <<heVars, ss, serviceVars>>

NextPrime == GenerateKeysCall \/ GeneratePrimeStep

SpecPrime == InitEngine /\ [][NextPrime]_vars

\* what generatePrime(bits) may return: odd, of exactly bits bits, divisible
\* by none of the screened primes, and prime
ReturnablePrime(c, bits) ==
  /\ c % 2 = 1
  /\ Pow2(bits - 1) <= c /\ c < Pow2(bits)
  /\ \A d \in {3, 5, 7, 11, 13, 17} : c % d # 0
  /\ isProbablyPrime(c)

\* C30 (prime search is bounded): generatePrime makes at most 2000 draws and
\* ends at the latest with the 2000th; what it returns is odd, has exactly
\* bits bits, is divisible by no screened prime and is prime; otherwise it
\* fails with the key-generation error, and the engine's publicKey,
\* privateKey, privateKeyShares and thresholdParams are those from before
\* the generateKeys call.
PrimeSearchBounded ==
  IF keygen = NULL THEN TRUE
  ELSE /\ keygen.attempts <= 2000
       /\ (keygen.status \in {"p", "q"} => keygen.attempts < 2000)
       /\ (keygen.p # NULL => ReturnablePrime(keygen.p.val, keygen.bits))
       /\ (keygen.q # NULL => ReturnablePrime(keygen.q.val, keygen.bits))
       /\ (keygen.status = "failed"
             => /\ keygen.error = "Failed to generate prime"
                /\ keygen.attempts = 2000
                /\ EngineKeys = keygen.before)
       /\ (keygen.status # "done" => EngineKeys = keygen.before)

\* a second generateKeys call failed at its 2000th draw for q on an engine
\* that holds keys
PrimeSearchBoundedWitness ==
  /\ keygen # NULL
  /\ keygen.status = "failed"
  /\ keygen.attempts = 2000
  /\ keygen.p = Ok(23)
  /\ publicKey # NULL

====
